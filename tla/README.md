# Hybrid renderer: a TLA+ development

The program draws a scene with OpenGL and prepares the same scene for OptiX.
It loads BART scenes (`.aff` text files that include each other), turns them
into GL meshes and OptiX instances, and then renders frames in passes over one
GL context until the window is closed.  It runs on one thread; what makes it
hard is *state*: four stacks pushed and popped by different functions in
different files, subtrees and GL meshes shared by several users, and a GL
context in which every pass finds what the one before it left bound.

All source paths below are relative to the repository's `src/` directory.

## 1. The system

| Component | State it keeps | Operations | Module |
|---|---|---|---|
| BART loader: `File/BARTLoader2.cpp`, `File/BARTLoader/Declarations.h`, `Parser/BART/*` | `active_def` (node stack, file scope stack, matrix and transform type stacks, include map, material, texture), `detailLevel`, the node graph, the flattened list | `load`, one parser per primitive, `pushNode`/`popNode`, `parseInclude`, `setMaterialState_r`, `flattenSceneGraph_r` | `BartLoader` |
| Scene set-up: `Scene/SceneManager.cpp` `initScene`, `Scene/OptixInstance.cpp` | map from MeshData to GL mesh, OptiX top level group, list of scene nodes | the loop over the loader's instances, validation | `InitScene` |
| Frame pipeline: `SceneManager::render`, `Render/Passes/*`, `Render/FBO.cpp`, `File/ShaderLoader.cpp`, `Scene/Mesh.cpp`, `Scene/Spacejet.cpp`, ... | the GL context: program stack, framebuffer, draw buffers, texture units, viewport, sampler and material uniforms | g-buffer pass, drawing one node, final pass, `reshape` | `FramePipeline` |
| Main loop: `main.cpp`, `Kernel.cpp`, `Render/GPUTimer.cpp` | the Kernel singleton, `running`, GPU timer query | `run`, GLUT callbacks, `exit`, `Shutdown` | `KernelLoop` |
| Input: `Kernel.cpp`, `main.cpp`, freeglut's window procedure | `keystatus`, `mouse`, the update timer | key, mouse and timer callbacks, `update` | `InputLoop` |
| Raytracer: `Raytracer/OptixRender.cpp`, `Render/PBO.cpp`, `Raytrace_Pass.cpp` | bind states, sizes and contents of six PBOs, the ray camera, `shadow_tex` | make buffers, first launch, copy in, launch, copy out, reshape | `RaytraceFrame` |
| Key frames: `Parser/BART/ParseKeyFrames.cpp`, `File/BARTLoader/animation.cpp`, `kbspl*.cpp` | list of animations with their splines | read a `k` block, make splines, find the polynomial of a time, visibility | `Keyframes` |
| INI files: `Parser/INIParser.h`, `Kernel::config` | read position, sections | `parse`, `createSection`, `getValue` | `IniParser`, `Program` |
| Camera, light: `Scene/proto_camera.cpp`, `Scene/Light.cpp` | `orientation`, `pos`, `world_to_view`, mouse | `update` | `RaytraceFrame`; what steers it in `InputLoop` |
| Geometry and upload: `Scene/Mesh.cpp`, `CubeSphere.cpp`, `Cube.cpp`, `Quad.cpp`, `Render/VAO.cpp`, `VBO.h`, `IBO.cpp`, `ATTRIB.h`, `File/MeshLoader.cpp`, `Raytracer/OptixTriMeshLoader.cpp` | vertex, index and array objects, offset of a VBO | five constructors, strip of a sphere, `fromMeshData` | `MeshUpload` |
| Shaders, uniforms, materials: `Render/Shader.cpp`, `Uniform.cpp`, `Material.cpp`, `File/ShaderLoader.cpp`, `MaterialLoader.cpp` | GL names of pipelines and programs, locations kept, material ids | `load`, `link`, `use`, `bind_id`, `bind_data`, destruction | `ShaderObjects`; the bind stack is in `FramePipeline` |
| Textures, assets, bloom pass, debug output | - | - | not modelled, see section 7 |

How they interact: `main` makes the `Kernel`, whose `init` calls
`SceneManager::initScene`, which calls `BARTLoader2::load` and consumes its
flattened list.  Before that `Kernel::config` reads `engine.ini`; its rate is
that of the timer whose `update` hands keys and mouse to the camera.
`Kernel::run` then calls `glutMainLoopEvent`, which calls back
into `display` (one frame), `reshape`, `update` and the input functions.  All
of it is synchronous calls on one thread.  There is no message, lock or
persistent state.  An exception of the loader leaves `load`, `initScene` and
`Kernel::init`, and `main` returns -1.

What is hard to test, each with its line, is the list `hazards` of
`PROJECT.json`.

## 2. Modules

    BartLoader -------- SceneText (abstract)     KernelLoop -- KernelLoop_proofs
      |-- MCBartLoader          ^
      |-- BartFormat            |                FramePipeline
      `-- InitScene -- MCInitScene                 |-- MCFramePipeline
            |  SceneRules ---^                     `-- FramePipeline_proofs
            |-- TracedScene (abstract)
            `-- BartLoader_proofs

    IniParser   InputLoop     ShaderObjects              Keyframes
         |         |            |-- MCShaderObjects        |-- MCKeyframes
         `-- Program            `-- ShaderObjects_proofs   `-- Keyframes_proofs
               |-- MCProgram
               `-- Program_proofs

    MeshUpload                 RaytraceFrame
      |-- MCMeshUpload           |-- MCRaytraceFrame
      `-- MeshUpload_proofs      `-- RaytraceFrame_proofs

**BartLoader** - one `load()`.  A file is a sequence of tokens, one per
primitive; an action is the whole parser of one token with the `pushNode`,
`popNode` and nested `parseFile` it calls.  The recursion of `parseFile`
through `parseInclude` is the stack `reader` of open files with their read
positions, and that of `flattenSceneGraph_r` the worklist `walk`.  A 4x4 matrix
is the sequence of the transforms it is the product of, which keeps the order of
multiplication and nothing else.  The variables have the names of the fields of
`active_def`.  The ends of a load are separate values of `status`: `done`,
`failed` (an exception), `undefined` (`std::stack` used while empty) and
`overflow` (a recursion that does not return).  `detailLevel` is an unsigned int
in the code and is taken modulo `UIntRange` here.

**SceneText** - what a load promises, with no node, stack or cache: a file
included is its text read in place.  `Loadable` (in **SceneRules**) says for
which scenes the loader keeps that promise; each conjunct is there because a smaller scene
without it breaks the refinement (one mesh per transform, because a node has
one mesh; material and detail state independent of where a shared file was
first included, because the subtree is read once).

**BartFormat** - a statement of the loader's own comments that it does not
keep, refuted by a run (section 5).

**InitScene** - extends the loader by the loop that consumes its list.  The GL
mesh of a MeshData is made once and has its transform, material and texture set
again for every instance; an OptiX instance has its own.  A mesh value stands for
one MeshData pointer, one primitive read once; its scenes have therefore no mesh
value twice, no include of the main file and none that cannot be read, as that
one parses on in the text of another file (`DistinctMeshesAssumption`).  Fixed objects that
`initScene` adds before the loop (spacejet, cubes) are the scenes of
`FramePipeline` instead.

**TracedScene** - what `initScene` promises of any scene: the instances `load()`
delivers are added to what is traced one after the other, as they are in the list
and for good, and it returns when all are there.  `InitScene` implements it
(`Delivery`), an instance being seen with the texture its shared GL mesh has now.

**FramePipeline** - one GL context through any number of frames and resizes.
An action is a stretch of `SceneManager::render` between two observable events
(a draw or a change of pass).  `image` records, for every draw of a frame, which
material it was for, which id and which texture the bound program saw.  The
raytrace pass is not run, because `SceneManager.cpp` has the calls commented out
(lines 82-86), although `doc/6_Implementation/implementation.tex` shows the loop
with them.  Its texture is still bound and sampled by the final pass, which is
modelled.

**KernelLoop** - `main` from `Kernel::init` on.  A turn of the loop of
`Kernel::run` is one `glutMainLoopEvent`: the window's messages in any order and
number, then a frame if one is due.  GLUT is the freeglut vendored in `depends/`
and read there: closing the window destroys it and its GL context at once, after
the close callback, and ends the turn; `glutPostRedisplay` without a window ends
the process; `glutExit` calls the close callback of a window still open.  The GPU
is a second actor, which finishes a query some time after it was ended.  A
whole frame is the one action `Redraw` here; its inside is `FramePipeline`.

**IniParser** - `ini::Parser` on a text of lines: `parse` and `createSection` are
two loops over one stream, and the second gives a header it meets back to the
first, character by character.  It gives back the length of the line without its
comment, so that behind a header with a comment the stream stands inside the
line (`inTail`); what is left of the line may itself read as a header.

**InputLoop** - the messages of keyboard and mouse, and the timer.  The hands are
part of the model (`down`, `shift`, `left`, ...), so that what the program
believes (`keystatus`, `leftPressed`) can be compared with them.  `before` is
where the pointer was at the last update, kept for the property; `old_mouse` is
what the camera has of it.  freeglut
reports a key by the character it makes at that moment, so that shift changes
what comes up; it reports nothing while the focus is elsewhere; and any button
that comes up gives up the capture.  `unsure` and `unsureDrag` name exactly what
such an unreported change touched.  A timer of 0 milliseconds is due again in
the loop that runs due timers, until the clock goes on (`later`).

**Program** - config and then the loop: `IniParser` and `InputLoop` composed, by
the one number that goes from the file to the timer.  `getInt` of a word that is
no number returns an uninitialised variable, which is any rate here.

**ShaderObjects** - `Shader`, `Uniform` and `Material` over GL's names.  A shader
keeps its pipeline and its programs in one array; the programs are counted by
`link` and, again, by `use`.  GL's names of pipelines and of programs are two
name spaces that overlap, which matters because the destructor deletes the whole
array as pipelines.  A program has the uniforms its text declares, by location,
so that a location kept from one program can be wrong in another.

**Keyframes** - `ParseKeyFrames` and the functions of `animation.h` on the list
it makes.  Nothing calls these functions yet; the model lets a caller ask for
any name and time after any block.  A position is one integer coordinate and a
polynomial carries its denominator, so that the arithmetic of
`KB_PosInitialize` is exact; rounding, and so the exact end of an interval, is
not modelled.  A rotation is one about a fixed axis: a quaternion is then half
an angle modulo 4Q units (Q to a right angle), its negation is half a turn, and
`Log` a difference.  That is enough for what `KB_RotInitialize` is delicate
about, which is the sign of a quaternion: it negates a key in place, converts it
back to an angle, by which minus one becomes plus one, and reads it again for
the next squad.  Its loop is therefore modelled turn by turn (`NextSquad`), as is
the search of `ComputeIAndU` (`NextPolynomial`, `Break`).  `text` holds the keys
of each track as they were in the file, for the properties to compare with.

**MeshUpload** - the constructors of `Mesh` (for a model file, or for BART and
then traced too), `Cube`, `CubeSphere` and `Quad` on one GL context, a step for
each GL object made, stream buffered, attribute bound and object unbound.
`glBindBuffer` and `glVertexAttribPointer` act on what is bound, so that the
model keeps what GL keeps: `vaos` with an element buffer and six attributes, and
`vbos`, whose contents are the ranges of bytes written and by which stream.
`BufferRank` is the order in which `Mesh::Mesh` buffers streams and `BindRank`
that in which its second loop asks for them, two chains of conditions in the
code.  `Draw` leaves a vertex array bound between constructors, as `render`
does.

**RaytraceFrame** - the raytracer's side of a frame: `createGBuffers`,
`compileContext` and `OptixRender::render` call by call, between a g-buffer pass
and a final pass that are one action each (their inside is `FramePipeline`).
`SceneManager::render` has the calls of the raytrace pass in a comment (lines
82-86), though `implementation.tex:144` shows them; a frame here therefore takes
`SkipRaytrace`, as the program is, or `RaytracePass`, as it is meant.  Images are
`InitSize` wide and high; a pass draws the part of them its window covers.  A
pixel is the view it was drawn or traced with and the proportions of that
picture.  A view is `world_to_view` taken apart, quarter turns about y and a
point, so that the directions `update` and `OptixRender` read out of the matrix
are integer vectors.  The proportions of the rasteriser are those of its
projection, which `initScene` sets once (`ViewToClip`), those of the rays the
window's at the time (`OptixRender.cpp:150`).  `gl` holds what each PBO believes
(`bind_state`) and what GL has bound, separately.

`MC*` modules give small instances.  Definitions named `<definition>_<fault>`
are the variants of a plausible bug that the properties are tested with; no
specification uses them.

## 3. Properties and runs

| Run | Instance | Distinct states | Shows |
|---|---|---|---|
| `bart_any` | any text of up to 4 tokens (3 over all kinds of token) for `main`, of up to 2 for the included file | 237,634 | the loader's stacks, node graph, include map and matrices, on unbalanced, cyclic and malformed input too; that `load()` ends on balanced, acyclic input |
| `scenes` | any main file of up to 4 tokens with 4 x 3 included files; all balanced main files with detail levels and animated transforms, 6 x 4 included files, the promises filtered by `Loadable` | 372,902 | GL and OptiX after set-up; the list the loader returns is the text of the scene (`DeliversSceneText`, a refinement of `SceneText`), and what OptiX traces is that list (`TracesDelivered`, of `TracedScene`, on all scenes) |
| `kernel_loop` | all of it, the state is finite | 358 | the GPU timer's query and the end of the program |
| `program` | any `engine.ini` of up to 4 of 9 lines, one key with and without shift, two places of the pointer | 337,880 | lookups against the text; keys, mouse and camera against the hands |
| `frames` | the spacejet and up to three more nodes of five kinds, two window sizes | 30,139 | the GL state every draw and pass needs |
| `mesh_upload` | up to two objects one after the other, of 24 models, a cube, a quad and spheres of 2 to 4 cells a side | 12,685 | what every attribute, element buffer and OptiX reads |
| `raytrace_frame` | images of 2x1 pixels, windows of 2x1, 1x1, 2x2 and 4x2, two places and two directions of the camera | 630,800 | the PBOs, the units and both pictures of a frame, with launches that fail |
| `keyframes` | up to two blocks and two motions, five keys each: positions at all orders of times 0..2 and at uneven increasing times with continuity and bias, all rotations by right angles | 690,296 | splines, rotations and the search against the keys of the file |
| `shader_objects` | three shaders of six choices of files, three materials of either loader | 1,405,727 | the programs of every pipeline; the ids and data of materials |

*Loader.*  `StacksInStep` is the central one: `xformTypeStack`, `xformStack`,
`nodeStack` and `fileScopeStack` are kept by `ParseXform` and by
`pushNode`/`popNode` in two files, and the relation between them must hold when
an included file leaves braces open or closes its includer's.
`MatchedBraceNeverFails` says that only an unmatched brace ends in
`ParseXform::end`'s exception.  `NodeStackIsPath`, `OneSubtreePerFile` and
`MatrixIsPathProduct` relate the stacks and the include map to the graph; the
last one needs balanced files.  `GoodScenesNeverOverflow` says that subtree sharing
alone never makes a cycle.  `LoadReturns` is liveness: files that close what they
open and include no file that includes them are loaded or refused, `done` or
`failed`.  Of other files it says nothing: one that includes itself makes the
recursions over the graph endless (`overflow`), and an unmatched brace may pop an
empty stack (`undefined`); the run reaches both.

*Set-up.*  `SharedMeshLooksAlike`: although the shared GL mesh is set up again
and again, its material and texture suit every instance, because a subtree is
read once.  `SingleUseInSync`: its transform does too when no file is used
twice.

*Frame.*  `NoFeedbackLoop`, `ProgramInUse` and `DrawsOwnTextures` each relate what
one pass leaves to what a later one, often of the next frame, needs
(`FinalReadsGBuffer` and `ViewportFollowsWindow` too; these two are proved and
have no run).  `OptixRender::unbind`
unbinds the wrong unit and leaves the raytracer's texture on unit 0 for the next
frame; `DrawsOwnTextures` shows that no node samples it, because the spacejet
is always drawn first and clears both units.  `ClearedFromSecondFrame` is as
strong as the code allows: in the first frame the clear is issued before
`glDrawBuffers` and reaches one attachment.

*Main loop.*  `QueryFollowsTurns` and `EveryMeasureRead` are the protocol of the
query against a GPU that answers at any time; `NeverAborts` is about closing the
window in the middle of a turn; `CallbacksReachKernel`, which is only proved, is
about the singleton, of which `glutExit`'s close callback makes a second one.  `ExitEndsProgram`,
`MeasuringGoesOn` and `FramesGoOn` are liveness; the last one is what
`FramePipeline` assumes of its frames.

*Input and INI file.*  `ValuesFromOwnSection` says that what a misread header
loses is never given to the section before it, for any comments;
`LookupMatchesText` compares the getters with a definition of what the text
means by line numbers, which holds while headers carry no comment: behind one, a
section is lost.
`KeysFollowHands` is as strong as the callbacks allow: only a key that was
itself, or whose shift was, moved since can be stuck in `keystatus`.
`TurnsIfHeldAndMoved` says exactly when an update turns the camera: the left
button is held at that update and the pointer is not where the update before
found it.  The motion may have been made before the button went down, which the
property names and the code allows (section 5).  `CameraFollowsKeys` and `LoopBegins` are liveness: of the
timer, at any rate, and of the two loops of the parser.

*Shaders.*  `StagesAreOwn` relates the two countings of a shader's programs, what
GL's pipeline runs and what `getVS`/`getGS`/`getFS` return, with stages that are
missing or do not compile.  `MaterialsShown` follows a material from the id in
one program to the data under that id in another, through the locations kept by
its uniforms; it needs that a material's uniforms meet only one program each.

*Key frames.*  `SearchStaysInside` is the assertion `0 <= u <= 1` of both
interpolators, and that the index is one of the track's, even when keys are not
in the order of time.  `SplinesMeetKeys` and `SmoothThroughKeys` relate what a
query answers to the keys of the file: the curve goes through them and, at
continuity 0, without a jump in speed, however uneven the times are.
`RotationsTakeShortWay` is about the keys negated while they are read.

*Mesh upload.*  `AttributesReadOwnData` is that the two chains of conditions of
`Mesh::Mesh` agree, for every combination of streams, and that no later
constructor or draw disturbs an object.  `ElementsAreOwn` depends on the order of
the three unbinds.  `OptixReadsNormals` relates the offset `OptixTriMeshLoader`
computes in vertices to the bytes of the shared buffer.  `StripCoversGrid`
compares the one strip of a sphere, built cell by cell, with the triangles of the
grid.

*Raytracer.*  `RaysMatchRaster` relates three things that are set at different
times by different code: the camera's matrix and position, the g-buffer in the
buffers rays read, and the variables `eye`, `U`, `V`, `W`.  Position and turn
always agree; the direction of a ray is that of its pixel exactly while the
window has the proportions it was opened with, and the property says so in both
directions.  `NothingLeftBound` is
the protocol of `PBO::bind`, whose exception is never met; a PBO left bound would
turn every later `glTexImage2D` into a read from it.  `SizesAsDeclared` (each copy
makes the buffer's store anew, of the texture's size, and OptiX is not told) and
the module's `NoFeedbackLoop` are proved and have no run.
`WindowIsOfOneLaunch` is about a launch that throws, after which
`OptixRender::render` returns half way and the texture of the final pass stays
as it was, and about a window that gets smaller: the part of the texture the
g-buffer pass draws is of one launch by the g-buffer's view, and in a window of
the first size that is all of it; in a smaller one the rest is whatever launches
before left in the buffer, a failed one too.

The type invariants (`TypeOK`, `InputTypeOK`) are part of the inductive invariants
of section 4 and proved; no run is spent on them.  `ShaderObjects` has none, its
two properties read every variable but the counters of names.

Every property of a passing run has a fault in `PROJECT.json` ("mutants") that
TLC must find with it.

**Bounds.**  `MainLength`, `IncludedLength` and `MixedLength` bound the texts
and hence the depth of every stack.  Four tokens hold two transforms open inside
one another and closed, an include between, a file included twice with a state
change between, and a fill or mesh on either side; two tokens in the included
file give self inclusion, an open brace left behind and a brace that closes the
includer's transform.  Faults in the order of stack operations all appear with
three tokens.  `UIntRange = 4` is enough for a negative level to exceed every
level in use.  In `frames` three nodes after the spacejet are enough for each
pair of kinds to follow each other with a third between them; the frame ends in
a state that depends only on the last node, and the number of frames is not
bounded.  In `keyframes` five keys make two polynomials, the least for which
there is a junction and a search that goes on; `MaxBlocks` and `MaxMotions` of 2
give two blocks of one name and a track that replaces another.  In `mesh_upload`
the models are all combinations of streams a loader makes, with one triangle;
`MaxObjects = 2` lets one object's construction follow another's, with draws
between, and what a constructor leaves bound does not depend on what came before
it; a grid of 4 has inner rows and columns.  In `raytrace_frame` two pixels are
the least of which a launch traces one and fails; the windows are smaller with
other proportions, equal, larger with other proportions and larger with the
same; `Room` holds two places, and only forward steps and half turns keep the
camera in it, which is enough for position, matrix and rays to differ.  In `program` four lines hold two sections with a property each, an empty section
between, a section that is repeated, and a header misread before each of them; a
second key adds nothing, as no handler relates two keys.  In `shader_objects` a
third shader is the first whose names lie behind those of two others, and three
materials are two of one loader and one of the other, in any order.  There are no
counters to cap in the frame; in the loader the length of
the texts bounds all of them.

**Fairness.**  `WF_vars(Next)` in the loader: `load` is a call on one
thread, which runs until it returns; there is no environment it waits for.  `WF_vars(Frame)` in the frame: `Kernel::run` posts
a redisplay in every turn of its loop while the program is running, and
`display` is a call that runs to its end.  `Reshape` has no fairness, the user
need not resize.  The liveness of frames therefore holds of a program that is
not closed or minimised, which `KernelLoop` states as `FramesGoOn`.
`InitScene`, `MeshUpload`, `RaytraceFrame`, `Keyframes` and `ShaderObjects` state
no fairness; their properties are safety.  In `Program`, `Parse \/ Run` is a call
that runs to its end, `Turn` is main's thread and `Tick` the clock; the clock's
fairness is what ends a turn in which a timer of rate 0 runs again and again.
In `KernelLoop`,
`WF_vars(Main)` is the thread itself - the messages waiting in one turn are
finitely many, so that the end of the turn is reached - and `WF_vars(GpuDone)`
says that the GPU finishes the commands it was given.  The user has no fairness.

## 4. Proofs

`tlapm` checks the following for every value of the constants.

*BartLoader_proofs.*  The inductive invariant is
`IInv == scene \in Scenes /\ TypeOK /\ IdleEmpty /\ StacksInStep`.  `TypeOK`
alone is not inductive: `popNode` reads the top of the node stack it popped, and
that there is one follows only from `StacksInStep`; `IdleEmpty` says that
nothing has been parsed before `load`.  Steps are grouped by what they disturb
(reader, graph and stacks, parser state, walk), one lemma for each group and a
case for each action.  The assumptions are `ScenesAssumption` (files are
sequences of tokens), `NamesAssumption` (no transform is called "root" or
"null", the names `pushNode` treats specially) and `NumbersAssumption`.
From it: `TypeCorrect`, `StacksAlwaysInStep` and `BracesNeverFail`.  `StackIsPath`
and `OneSubtree` strengthen it: nodes are only added at the end and keep their
children, so that a path stays one; and a node of a file is made only together
with its entry in the include map.

`MatrixFollowsPath` (balanced files) is about a product over the path, which the
parser never forms.  `HistoryInv` says that some history explains the state: a
record for every node on the stack, of what `xformTypeStack`, `xformStack` and
`xformMatrix` were when that node was the active one, which of the open files it
belongs to and how many transforms that file had open, each record following from
the one below it by what pushed the node.  A push adds a record; a closing brace
or the end of a file finds in the record below the top what it has to restore,
and that it restores this one is where balance is needed: the transforms a file
has open are as many as its text up to the read position opens.  The product is
extended on the right only, and used by its two equations.

`LoaderReturns` (`GoodScenesNeverOverflow`) needs `FileNamesAssumption` (finitely
many files).  `FileInv` gives every node a file such that a child is a later node
of its parent's file or a node of a file this one includes.  `AcyclicIncludes`
ranks the files, so that nodes ordered by the rank of their file, then by number,
have a layer each (`Layers`) which is higher for a child than for its parent and
at most the number of nodes.  The chain of first children that
`PropagateChildPosition` follows therefore never comes round, and no pending call
of `flattenSceneGraph_r` is nested deeper than the layer of its node
(`FlattenInv`).

The part about set-up needs `DistinctMeshesAssumption`, and nothing before it
does.  A file is opened once (`OpenOnce`), so that no token is read twice
(`Consumed`), and a mesh comes to lie in one node at most (`MeshesOnce`).  All
entries of the list for a mesh are therefore of one node, and agree in all that
is the node's (`ListAlike`).  Without repeated includes no subtree is shared:
every node but the root has one parent, hence one path and one product, and the
entries agree in the transform too.  `SetupInv` then says of the loop that the
GL mesh is as any of the instances made so far has it.  From it:
`SharedMeshesLookAlike`, `SingleUseIsInSync` and the refinement `SetUpImplements`
(`TracesDelivered`), step by step: what is traced, textured by the shared GL
meshes, is in every state the front of the list (`AsListed`), so that a turn of
the loop appends the next instance and changes none before it, although it sets up
their GL mesh anew; a step of `load` adds to the list, returns or stutters; and
`validate` finds the two equal.  With `DeliversSceneText`, which is not proved
(below), it says that OptiX traces the scene its text describes.

*FramePipeline_proofs.*  `IInv` says for each `pc` which node is next, what the
program stack, target, units and samplers are.  The unit part is the one that
needs thought: at the beginning of a frame unit 0 may hold any material texture
(first frame) or the raytracer's, unit 1 holds nothing of the g-buffer, and
after the first node both are empty, by `ScenesAssumption` (the spacejet has
both its textures) and `SamplersAssumption`.  From it: `FrameTypeCorrect`,
`NeverFeedsBack`, `ProgramMeant`, `OwnTextures`, `QuadReadsGBuffer` and
`ViewportRestored`.  `ClearedOnceSet` is the safety half of
`ClearedFromSecondFrame`: a frame that came to its quad leaves the draw buffers
set, and then every later frame clears all that its quad reads.  What it leaves to
TLC is that a first frame is drawn.

*KernelLoop_proofs.*  The module has no parameter and TLC covers all its states;
the proof adds the reason.  `IInv` says for each place in the loop what the
query and the window are: a query waits unread exactly while `test_gpu_time` is
off, and `running` implies a window.  From it: `QueryProtocol`, `NoAbort`,
`MeasuresRead` and `CallbacksReach`.

*Keyframes_proofs.*  The types and all four properties of the run, for any tracks, times, names
and any Q.  `IInv` says that every spline is `KB_PosInitialize` of the keys it
was read from, that squads follow one another (`q` of one is `p` of the next,
up to sign, and `p` is what was read, up to sign), also half way through
`KB_RotInitialize`, and that a search has passed only polynomials that end
before the time it looks for.  The last part gives `SearchInside` for keys in
any order: the clamp ensures that the last polynomial stops the search, and the
one before it, or the clamp at the beginning, that `u` is not negative and the
interval not empty.  `KeysMet` and `SmoothSplines` then are identities of
polynomials, which are separate lemmas, as the prover's arithmetic needs their
terms multiplied out.

*MeshUpload_proofs.*  `IInv` says, for each place of a constructor, which GL
objects exist and are bound; that `buffered` and `bound` are the first streams in
rank order; that `offsets` are the bytes of the streams before, so that the
ranges written are disjoint and fit the buffer; and that finished objects are
what the properties ask.  Assumed are `ModelsAssumption` (indices name vertices,
traced meshes are triangles), `CellsAssumption` and `MaxObjectsAssumption`.  From
it: `UploadTypeCorrect`, `OwnDataRead`, `OwnElements` (for spheres of any number
of cells) and `NormalsFound`.  `StripsCover` (`StripCoversGrid`) has an invariant
of its own, `StripsInv`, which says where in the strip each finished cell put its
indices: behind those of the rows before, two for a column, and two more that join
a row to the next.  Each position of the finished strip lies in one row (`RowOf`,
found as the least row that begins beyond it, as the prover has no division) and
draws the lower or the upper triangle of one cell, or joins two rows and is
degenerate.  Vertices of the grid with one number are one vertex (`SameVertex`),
so that positions drawn and triangles of the grid correspond one to one, and there
are as many of the ones as of the others.

*RaytraceFrame_proofs.*  `NothingLeftBound` is inductive because each sequence of
calls on a PBO, worked out by two lemmas, leads from the free state to itself;
`BufferAlignment` of four byte pixels is what GL has by itself.  `IInv` adds that
the camera agrees with itself, that the g-buffer is the camera's until the
raytracer is done, what has been copied and made so far, and that a launch that
succeeded traced all it covers, along the g-buffer's view.  From it the types, the
three properties of the run and two more (`SizesKept`, `NoFeedback`), for any
sizes, keys, turns and `Room`; `WindowPictured` is an action property and needs
`TracedWhole` and `RasterIsFresh` before the step.

*Program_proofs.*  Its first part is about `IniParser` alone, whose `Spec` has
texts of any kind.  The parser's `IInv` says that `sections` are
the headers up to the line read, each with the last line of every property under
it, with the header `createSection` works on the last; while headers are plain no
header is skipped.  `LookupsFindMeant` then compares the first section that has a
property with the first header that gives it, which needs that sections are in
the order of their headers.  The part about the program takes these lemmas and adds, for
keys and mouse, that `keystatus` and `leftPressed` are what the hands do wherever
`unsure` and `unsureDrag` do not say otherwise.  From it: `ProgramOwnValues`,
`ProgramLookups`, `TimerRuns` (the step from config to the loop), `KeysFollow`
and `TurnsByButton`.

*ShaderObjects_proofs.*  `NamesInv`: the programs of a shader lie in one block of
GL's names, in the order of its stages, blocks of different shaders apart, and a
pipeline once made keeps its programs; `CountBelow` counts the names before a
stage as the code does.  `IdsInv`: ids of registered materials are below their
number and differ.  `KeptInv`: a uniform has met one program only, so that the
location it keeps is the one a search would find there.  `ShownInv` is what was
sent last.  Assumed is `DeclaredAssumption` (a text declares a finite sequence of
uniforms) and no more about where GL puts them.  From it: `NamesGivenOnce`,
`EveryStageItsOwn` and `MaterialBoundIsShown`.

*Only model-checked.*  Liveness (`LoadReturns`, `ClearedFromSecondFrame`,
`ExitEndsProgram`, `MeasuringGoesOn`, `FramesGoOn`, `CameraFollowsKeys`,
`LoopBegins`), as the prover has neither fairness nor ENABLED; and the
refinement of `SceneText` (`DeliversSceneText`), whose `Read` is recursive, which
keeps it out of any module with a theorem.

## 5. Where the program differs from what is said of it

Each line is a run that TLC refutes, with the quotation in `PROJECT.json`.

| Run | What the code does |
|---|---|
| `include_material` | `setMaterialState_r` walks to the first child and assigns nothing, so a parameter file included again does not restore its fill |
| `clean_up` | a window closed by the user takes the context with it before the timer and the kernel are cleaned up |
| `own_material` | BART materials all have id 0 and are registered nowhere: their meshes are shaded with the first .mat file |

`own_material` gives the spacejet the first .mat file, so that it shows nothing
but BART's meshes.  With the one `initScene` gives it (`SceneManager.cpp:185`)
the spacejet breaks the property too: its id goes to the g-buffer's program
(`Scene/Spacejet.cpp:54`) and not to the one it draws with.

Noticed without a run: the visibility keys are freed while the animation still
points to them (`ParseKeyFrames.cpp:239`, against what `:95` promises of
visibility); a section header put back by the length of the line without its
comment is not "1 line" back (`INIParser.h:184`, against `:185`); `getInt`
returns an uninitialised number for a value that is none (`INIParser.h:106`);
`~Shader` passes the names of its programs to `glDeleteProgramPipelines`, and the
names generated for those places are lost, as are the programs (`Shader.cpp:42`,
`:86`); the exception for an include that cannot be read is
constructed and not thrown (`BARTLoader2.cpp:186`); the error text of an unknown primitive is computed by
pointer arithmetic (`BARTLoader2.cpp:165`); a negative detail level is compared
as unsigned and its file skipped (`:203`), and a file seen before is attached
whatever its level (`:192`), against the rule in `ParseDetailLevel.cpp:22`; a
node has one mesh, so that the second one in a transform replaces the first
(`ParseMesh.cpp:203`, against `ParseXform.cpp:20`); the test for whole triangles
is inverted (`ParsePoly.cpp:104`, against `:103`); visibility keys are read by
`%d` into `unsigned char` (`ParseKeyFrames.cpp:230`); `GetTranslation` returns
TRUE for an animation without a translation (`animation.cpp:207`, against
`:197`); an image that cannot be read becomes an empty texture without an error
(`TextureLoader.cpp`); the light `initScene` makes is never added to the scene, and would
compute its position in view space once (`Light.cpp:29`); the last batch of textured
triangles is never flushed (`ParseTextureStuff.cpp:87`), nor does it matter, as
`addPoly` discards its argument; a comment of more than 999 characters is parsed
in part as primitives (`ParseComment.cpp:24`); nanoseconds are read into a GLint
(`GPUTimer.cpp:30`), which a turn of 2.1 seconds overflows;
the g-buffer's images keep the size they were created with when the window
grows (`FBO.cpp`); the transform of an instance is set on the GL mesh it shares
with all others of its MeshData (`SceneManager.cpp:308`, where :304 has a todo),
so that a file included twice is in two places for OptiX and in one for GL,
against "Geometry and its transform (model matrix)" of `implementation.tex:422`;
only the inner two of four rotation keys are arranged (`kbsplrot.cpp:55`), so
that the arc from `a` to `b` of a squad can be obtuse, against what `Slerp`
asserts (`quat.cpp:545`); texture coordinates are counted as float3s, so that
the buffer declared to OptiX is larger than the one in GL
(`OptixTriMeshLoader.cpp:30`); a `CubeSphere` of one cell takes the address of the
first of no indices; `OptixRender::reshape` changes the size of a launch and not
that of the buffers (`OptixRender.cpp:188`), so that a larger window would launch
over their end (`LaunchOverEnd`); it changes the aspect of the rays too
(`OptixRender.cpp:150`), while the rasteriser's projection is set once
(`SceneManager.cpp:156`), so that in a window of other proportions a ray and its
pixel part (`RaysMatchRaster`); `pbo2Texture` copies the whole buffer
(`OptixRender.cpp:182`) and the final pass samples the whole texture
(`finalColor.fs:64`), so that beside the picture of a smaller window it shows
what an older or a failed launch left (`WindowIsOfOneLaunch`); a ray goes through
the corner of its pixel (`pinhole_camera.cu`), and pi is 3.14 in the field of view
of the rays (`OptixRender.cpp:151`); motion made before the left button goes down,
in the same interval of the timer, turns the camera at the next update
(`proto_camera.cpp:59`, `:81`); nothing sets the
device variable `radiance_ray_type`.

## 6. Plan

In this order; each module is written without RECURSIVE operators so that it can
be proved about.

1. *Done:* the loader, its abstract specification, set-up, the frame, the main
   loop, key frame animation, mesh upload, the raytracer's frame, the INI parser,
   input and timer, their composition, shaders with uniforms and materials, and
   the inductive invariants behind every safety property that is run, and the
   refinement of `TracedScene`.
2. An abstract specification of a frame (what the window shows) that
   `FramePipeline` and `RaytraceFrame` both implement.
3. Proofs: `SceneText` as a recursive function, or with a fold, so that the
   refinement of the loader can be proved.

The smaller disagreements of section 5 are notes and not runs, to keep the
number of runs small enough to check them all in minutes.

## 7. Not modelled

Most of `src/` is not this program: the CUDA, OptiX, Assimp, freeglut and other
libraries under `src/depends` are about 98 lines in a hundred of the repository,
and of them only the parts of freeglut the main loop runs through are modelled.
Of the program's own files, those without a module are the ones listed here.

Pixels, shading, depth and culling; camera arithmetic, rotations about different
axes and rounding (floating point); decoding of images and models (DevIL, Assimp); the
destructors of GL objects other than shaders; the settings of `engine.ini` other
than the rate; what rays hit; the copies of a PBO through
client memory, which nothing calls; `DebugOutput`, which only prints;
`Bloom_Pass`, which nothing constructs; the demo scenes, thesis text and
vendored libraries of the repository.  Characters are not modelled in the BART
parsers: a token stands for a primitive with its operands, or for one that
cannot be read.
