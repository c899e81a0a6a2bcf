----------------------------- MODULE InitScene -----------------------------
(***************************************************************************)
(* SceneManager::initScene, from the call of BARTLoader2::load on: for     *)
(* every mesh instance the loader delivers, an OptiX geometry instance     *)
(* under the top level group and a node of the GL scene.  An OptiX         *)
(* instance has its own transform and material; the GL mesh is shared by   *)
(* all instances of one MeshData, whose pointer keys the map               *)
(* meshdata_optixmesh_map.                                                 *)
(*                                                                         *)
(* The loader's mesh value stands for that pointer, so a scene names every *)
(* mesh once.  Of the calls into OptiX, validate() may fail.  A texture    *)
(* file that cannot be read is no error here: TextureLoader hands over an  *)
(* empty texture, and a GL mesh shows the texture of the name it was given.*)
(***************************************************************************)
EXTENDS BartLoader

(* a mesh value is one MeshData pointer: one "m" in one file, read once; so *)
(* nothing includes the main file, as an unreadable include could           *)
DistinctMeshes(s) ==
  /\ \A f, g \in DOMAIN s : \A i \in DOMAIN s[f], j \in DOMAIN s[g] :
       s[f][i].op = "m" /\ s[g][j].op = "m" /\ s[f][i].mesh = s[g][j].mesh
         => f = g /\ i = j
  /\ \A f \in DOMAIN s : \A i \in DOMAIN s[f] :
       s[f][i].op # "i?" /\ (s[f][i].op = "i" => s[f][i].file # Main)

ASSUME DistinctMeshesAssumption == \A s \in Scenes : DistinctMeshes(s)

VARIABLES
  setup,                   \* where initScene is
  meshdata_optixmesh_map,  \* MeshData -> what its GL mesh (triMesh) shows
  topLevelGroup,           \* the OptiX instances
  sceneNodes               \* what the loop add()s to SceneManager::scene

initVars == <<meshdata_optixmesh_map, topLevelGroup, sceneNodes>>
allVars == <<vars, setup, initVars>>

Setup == {"init",       \* in load() or in the loop
          "ready",      \* initScene returned
          "exited",     \* OptiX rejected the context
          "failed",     \* an exception of load() left initScene
          "undefined"}  \* a null material was read

(* OptixTriMeshLoader::fromMeshData *)
NewTriMesh == [material |-> None, xform |-> Identity, texture |-> None]

Key_ByTexture(node) == node.textureFilename   \* fault: meshes of one texture share
Key(node) == node.meshData

TriMesh(node) ==
  IF Key(node) \in DOMAIN meshdata_optixmesh_map
  THEN meshdata_optixmesh_map[Key(node)]
  ELSE NewTriMesh

(* fault: the GL mesh is left where it was made *)
Shown_AtOrigin(node) ==
  [material |-> node.material, xform |-> Identity,
   texture |-> IF node.textureFilename = None THEN TriMesh(node).texture
               ELSE node.textureFilename]
(* the GL mesh after its setters: an empty texture name leaves the texture *)
Shown(node) ==
  [material |-> node.material, xform |-> node.xform,
   texture |-> IF node.textureFilename = None THEN TriMesh(node).texture
               ELSE node.textureFilename]

(* fault: the transform is taken from the GL mesh *)
Instance_Shared(node) ==
  [geometry |-> Key(node), transform |-> TriMesh(node).xform, material |-> node.material]
(* new OptixInstance, its setObjectToWorldMatrix and setMaterial *)
Instance(node) ==
  [geometry |-> Key(node), transform |-> node.xform, material |-> node.material]

Looping == status = "done" /\ setup = "init"
BartNode == flattened[Len(topLevelGroup) + 1]
MoreNodes == Len(topLevelGroup) < Len(flattened)

InitS ==
  /\ Init
  /\ setup = "init"
  /\ meshdata_optixmesh_map = << >> /\ topLevelGroup = << >> /\ sceneNodes = << >>

LoadStep ==
  /\ setup = "init"
  /\ Next
  /\ UNCHANGED <<setup, initVars>>

(* an exception of load() leaves initScene too *)
LoadFailed ==
  /\ setup = "init" /\ status = "failed"
  /\ setup' = "failed"
  /\ UNCHANGED <<vars, initVars>>

(* One turn of the loop *)
AddBartNode ==
  /\ Looping /\ MoreNodes /\ BartNode.material # None
  /\ meshdata_optixmesh_map' = Put(meshdata_optixmesh_map, Key(BartNode), Shown(BartNode))
  /\ topLevelGroup' = Append(topLevelGroup, Instance(BartNode))
  /\ sceneNodes' = sceneNodes \o <<<<"optix", Len(topLevelGroup')>>, <<"mesh", Key(BartNode)>>>>
  /\ UNCHANGED <<vars, setup>>

(* updateOptixMaterial reads the material of an object before any fill *)
NullMaterial ==
  /\ Looping /\ MoreNodes /\ BartNode.material = None
  /\ setup' = "undefined"
  /\ UNCHANGED <<vars, initVars>>

(* validate and compileContext, which exit the process on an error *)
Validate ==
  /\ Looping /\ ~MoreNodes
  /\ setup' \in {"ready", "exited"}
  /\ UNCHANGED <<vars, initVars>>

InitSceneStep == AddBartNode \/ NullMaterial \/ Validate

NextS == LoadStep \/ LoadFailed \/ InitSceneStep

SpecS == InitS /\ [][NextS]_allVars

-----------------------------------------------------------------------------

Instances == DOMAIN topLevelGroup
GLMesh(k) == meshdata_optixmesh_map[topLevelGroup[k].geometry]

(* Sharing one GL mesh among the instances of a MeshData is sound for all  *)
(* but its transform: whatever was included where, no instance asks for    *)
(* another material or texture than the GL mesh shows.                     *)
SharedMeshLooksAlike ==
  \A k \in Instances :
    /\ GLMesh(k).material = topLevelGroup[k].material
    /\ GLMesh(k).texture = flattened[k].textureFilename

(* no two includes in the texts of scene s are of one file *)
NoFileTwice(s) ==
  \A f, g \in DOMAIN s : \A i \in DOMAIN s[f], j \in DOMAIN s[g] :
    s[f][i].op = "i" /\ s[g][j].op = "i" /\ s[f][i].file = s[g][j].file
      => f = g /\ i = j

(* When no file is included twice, GL and OptiX show every mesh at the     *)
(* same place.                                                             *)
SingleUseInSync ==
  NoFileTwice(scene) => \A k \in Instances : GLMesh(k).xform = topLevelGroup[k].transform

(* instance k as OptiX traces it: its own geometry, transform and material, *)
(* textured as the GL mesh it shares is                                     *)
Seen(k) ==
  [meshData |-> topLevelGroup[k].geometry, material |-> topLevelGroup[k].material,
   textureFilename |-> GLMesh(k).texture, xform |-> topLevelGroup[k].transform]

Delivery == INSTANCE TracedScene WITH
              list <- flattened,
              loaded <- status = "done",
              traced <- [k \in Instances |-> Seen(k)],
              ready <- setup = "ready"

(* Whatever the files, initScene traces what load() delivered, in order    *)
(* and completely: setting up an instance leaves those before it as they   *)
(* are, though it may set the material, transform and texture of a GL mesh *)
(* they share, and initScene is back only when no instance is missing.     *)
TracesDelivered == Delivery!DSpec

=============================================================================
