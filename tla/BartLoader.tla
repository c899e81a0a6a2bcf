----------------------------- MODULE BartLoader -----------------------------
(***************************************************************************)
(* File::BARTLoader2: loading one BART scene (.aff files).                 *)
(*                                                                         *)
(* load() pushes a root node, parses the main file and every file it       *)
(* includes, token by token, into a graph of scene nodes in which a file   *)
(* included twice is one shared subtree, then flattens that graph into the *)
(* list of mesh instances SceneManager::initScene turns into GL meshes and *)
(* OptiX instances.                                                        *)
(*                                                                         *)
(* A file is a sequence of tokens, one per primitive of the format; the    *)
(* recursion of parseFile/parseInclude is the stack "reader" of open       *)
(* files, the recursion of flattenSceneGraph_r the worklist "walk".  A     *)
(* 4x4 matrix is the sequence of the transforms it is the product of (the  *)
(* identity is << >>), so that the order of multiplication is kept.        *)
(***************************************************************************)
EXTENDS Integers, Sequences, FiniteSets

CONSTANTS
  Scenes,      \* the sets of files that may be on disk: [file name -> tokens]
  Main,        \* name of the main scene file
  FileName,    \* file names an include may spell, of files that exist or not
  XformName,   \* names of keyframe-animated transforms
  Transform,   \* static transforms (T*R*S of an "xs")
  Mesh,        \* meshes, one per "m"
  Material,    \* materials, one per "f" / "fm"
  Texture,     \* texture file names
  Detail,      \* detail levels an include or a "d" may spell (int)
  UIntRange,   \* number of values of an unsigned int
  None         \* nullptr / the empty string

Token ==
  [op : {"xs"}, xf : Transform]
    \cup [op : {"x"}, name : XformName]
    \cup [op : {"}"}]
    \cup [op : {"i"}, file : FileName, detail : Detail]
    \cup [op : {"i?"}]                   \* an include fscanf cannot read
    \cup [op : {"d"}, detail : Detail]
    \cup [op : {"f"}, mat : Material]
    \cup [op : {"m"}, mesh : Mesh, tex : Texture \cup {None}]
    \cup [op : {"s"}]                    \* sphere, cone or cylinder
    \cup [op : {"p"}, patch : BOOLEAN, nverts : Nat]
    \cup [op : {"tt"}, tex : Texture]
    \cup [op : {"other"}]                \* comment, v, l, b, a, k, tpa
    \cup [op : {"bad"}]                  \* unknown code, or malformed operands

ASSUME ScenesAssumption ==
  /\ Main \in FileName
  /\ \A s \in Scenes : /\ DOMAIN s \subseteq FileName
                       /\ s \in [DOMAIN s -> Seq(Token)]

(* parseInclude reads a name into an array of 100 characters *)
ASSUME FileNamesAssumption == IsFiniteSet(FileName)

(* pushNode recognises these two names; no scene spells them *)
ASSUME NamesAssumption == {"root", "null"} \cap XformName = {}

ASSUME NumbersAssumption == Detail \subseteq Int /\ UIntRange \in Nat \ {0}

VARIABLES
  scene,            \* the files on disk
  status,           \* where load() is
  reader,           \* the open files, each with its read position
  nodes,            \* every InternalSceneNode made; a node is its index
  sceneNode, nodeStack, fileScopeStack, includefileToNodeMap,  \* of active_def
  xformMatrix, xformStack, xformTypeStack,                     \* of active_def
  extMaterial, texture, batch,                                 \* of active_def
  detailLevel,      \* BARTLoader2::detailLevel
  prims,            \* materials of sphereList and coneList
  polys,            \* vertex counts of the polygons handed to addPoly
  walk,             \* pending calls of flattenSceneGraph_r, the next one first
  flattened         \* flattenedSceneGraph

graphVars == <<nodes, sceneNode, nodeStack, fileScopeStack, includefileToNodeMap>>
xformVars == <<xformMatrix, xformStack, xformTypeStack>>
stateVars == <<extMaterial, texture, detailLevel>>
geomVars  == <<batch, prims, polys>>
walkVars  == <<walk, flattened>>
vars == <<scene, status, reader, graphVars, xformVars, stateVars, geomVars, walkVars>>

STATIC   == "STATIC_TRANSFORM"
ANIMATED == "ANIMATED_TRANSFORM"

Status == {"idle", "parse", "flatten", "done",
           "failed",      \* an exception left load()
           "undefined",   \* std::stack was used while empty
           "overflow"}    \* a recursion that never returns

Matrix == Seq(Transform)
Identity == << >>

Top(stack) == stack[Len(stack)]
Pop(stack) == SubSeq(stack, 1, Len(stack) - 1)

Unsigned(n) == n % UIntRange

(* "*=" of glm: the product with one more transform *)
Times_Left(m, t) == <<t>> \o m   \* fault: multiplied on the wrong side
Times(m, t) == Append(m, t)

NewNode(name, scope, xform) ==
  [name |-> name, fileScope |-> scope, xform |-> xform, children |-> << >>,
   mesh |-> None, material |-> None, textureFilename |-> None]

-----------------------------------------------------------------------------
(* The token the innermost parseFile is about to read *)

Frame == Top(reader)
AtEof == Frame.pos > Len(scene[Frame.file])
Tok == scene[Frame.file][Frame.pos]
At(op) == status = "parse" /\ ~AtEof /\ Tok.op = op
Advanced == [reader EXCEPT ![Len(reader)].pos = @ + 1]
Advance == reader' = Advanced

Stays == UNCHANGED <<scene, status>>

(* AddChild(ns, p, c): the graph ns after ns[p]->add(c) *)
AddChild(ns, p, c) == [ns EXCEPT ![p].children = Append(@, c)]

(* std::map's map[key] = value *)
Put(map, key, value) ==
  [k \in DOMAIN map \cup {key} |-> IF k = key THEN value ELSE map[k]]

(* includefileToNodeMap after pushNode; the subtree of an included file is *)
(* its "null" node                                                         *)
Mapped_Not(name, file, new) == includefileToNodeMap   \* fault: not entered
Mapped_Parent(name, file, new) ==                     \* fault: entered too early
  IF name = "null" THEN Put(includefileToNodeMap, file, sceneNode) ELSE includefileToNodeMap
Mapped(name, file, new) ==
  IF name = "null" THEN Put(includefileToNodeMap, file, new) ELSE includefileToNodeMap

(* pushNode for every name but "root", "scopes" being fileScopeStack *)
PushNode(name, xform, scopes) ==
  LET new == Len(nodes) + 1 IN
  /\ nodes' = Append(AddChild(nodes, sceneNode, new), NewNode(name, Top(scopes), xform))
  /\ sceneNode' = new
  /\ nodeStack' = Append(nodeStack, new)
  /\ includefileToNodeMap' = Mapped(name, Top(scopes), new)

(* fault: the active node is not the new top of the stack *)
PopNode_KeepsSceneNode ==
  /\ nodeStack' = Pop(nodeStack)
  /\ UNCHANGED <<sceneNode, nodes, includefileToNodeMap>>

PopNode ==
  /\ nodeStack' = Pop(nodeStack)
  /\ sceneNode' = Top(Pop(nodeStack))
  /\ UNCHANGED <<nodes, includefileToNodeMap>>

-----------------------------------------------------------------------------
Init ==
  /\ scene \in Scenes
  /\ status = "idle" /\ reader = << >>
  /\ nodes = << >> /\ sceneNode = 0 /\ nodeStack = << >> /\ fileScopeStack = << >>
  /\ includefileToNodeMap = << >>
  /\ xformMatrix = Identity /\ xformStack = << >> /\ xformTypeStack = << >>
  /\ extMaterial = None /\ texture = None /\ detailLevel = 0
  /\ batch = << >> /\ prims = << >> /\ polys = << >>
  /\ walk = << >> /\ flattened = << >>

(* load up to its call of parseFile, which throws when the file is missing *)
Load ==
  /\ status = "idle"
  /\ detailLevel' = 0 /\ xformMatrix' = Identity
  /\ nodes' = <<NewNode("root", "root", Identity)>>
  /\ sceneNode' = 1 /\ nodeStack' = <<1>> /\ fileScopeStack' = <<"root">>
  /\ IF Main \in DOMAIN scene
     THEN status' = "parse" /\ reader' = <<[file |-> Main, pos |-> 1]>>
     ELSE status' = "failed" /\ reader' = reader
  /\ UNCHANGED <<scene, includefileToNodeMap, xformStack, xformTypeStack,
                 extMaterial, texture, geomVars, walkVars>>

(* fault: the matrix is not saved *)
StaticXform_Unsaved ==
  /\ At("xs")
  /\ xformTypeStack' = Append(xformTypeStack, STATIC)
  /\ xformMatrix' = Times(xformMatrix, Tok.xf)
  /\ PushNode("static", <<Tok.xf>>, fileScopeStack)
  /\ Advance /\ Stays
  /\ UNCHANGED <<xformStack, fileScopeStack, stateVars, geomVars, walkVars>>

(* "xs" ... { *)
StaticXform ==
  /\ At("xs")
  /\ xformTypeStack' = Append(xformTypeStack, STATIC)
  /\ xformStack' = Append(xformStack, xformMatrix)
  /\ xformMatrix' = Times(xformMatrix, Tok.xf)
  /\ PushNode("static", <<Tok.xf>>, fileScopeStack)
  /\ Advance /\ Stays
  /\ UNCHANGED <<fileScopeStack, stateVars, geomVars, walkVars>>

(* "x" name { *)
AnimatedXform ==
  /\ At("x")
  /\ xformTypeStack' = Append(xformTypeStack, ANIMATED)
  /\ PushNode(Tok.name, Identity, fileScopeStack)
  /\ Advance /\ Stays
  /\ UNCHANGED <<fileScopeStack, xformMatrix, xformStack, stateVars, geomVars, walkVars>>

(* "}" closing a static transform; an empty matrix stack throws *)
EndStatic ==
  /\ At("}") /\ xformTypeStack # << >> /\ Top(xformTypeStack) = STATIC
  /\ IF xformStack = << >>
     THEN /\ status' = "failed"
          /\ UNCHANGED <<graphVars, xformVars, reader>>
     ELSE /\ xformMatrix' = Top(xformStack)
          /\ xformStack' = Pop(xformStack)
          /\ xformTypeStack' = Pop(xformTypeStack)
          /\ PopNode /\ Advance
          /\ UNCHANGED <<status, fileScopeStack>>
  /\ UNCHANGED <<scene, stateVars, geomVars, walkVars>>

(* "}" closing an animated transform *)
EndAnimated ==
  /\ At("}") /\ xformTypeStack # << >> /\ Top(xformTypeStack) = ANIMATED
  /\ xformTypeStack' = Pop(xformTypeStack)
  /\ PopNode /\ Advance /\ Stays
  /\ UNCHANGED <<fileScopeStack, xformMatrix, xformStack, stateVars, geomVars, walkVars>>

(* "}" without an open transform: top() of an empty std::stack.  What is   *)
(* read may look static, and the empty matrix stack then throws; otherwise *)
(* pop() corrupts the stack and nothing is known of what follows.          *)
EndUnmatched ==
  /\ At("}") /\ xformTypeStack = << >>
  /\ status' \in {"failed", "undefined"}
  /\ UNCHANGED <<scene, reader, graphVars, xformVars, stateVars, geomVars, walkVars>>

-----------------------------------------------------------------------------
(* parseInclude.  When fscanf fails the error object is made but not       *)
(* thrown: the uninitialised file name and level are used.                 *)

IncludeArgs ==
  IF Tok.op = "i" THEN {<<Tok.file, Tok.detail>>} ELSE FileName \X Detail

AtInclude == At("i") \/ At("i?")

(* setMaterialState_r follows first children and changes nothing; it       *)
(* returns unless the first children run in a circle                       *)
FrontDiverges(ns, n) ==
  LET hop[k \in 0..Len(ns)] ==
        IF k = 0 THEN {n}
        ELSE {ns[m].children[1] : m \in {x \in hop[k - 1] : ns[x].children # << >>}}
  IN  hop[Len(ns)] # {}

(* an include of a file seen before: its subtree is attached once more *)
IncludeSeen(f) ==
  /\ f \in DOMAIN includefileToNodeMap
  /\ nodes' = AddChild(nodes, sceneNode, includefileToNodeMap[f])
  /\ status' = IF FrontDiverges(nodes', sceneNode) THEN "overflow" ELSE "parse"
  /\ Advance
  /\ UNCHANGED <<scene, sceneNode, nodeStack, fileScopeStack, includefileToNodeMap,
                 xformVars, stateVars, geomVars, walkVars>>

(* an include of a new file within the detail level: parseFile opens it *)
IncludeNew(f, d) ==
  /\ f \notin DOMAIN includefileToNodeMap
  /\ Unsigned(d) <= detailLevel
  /\ fileScopeStack' = Append(fileScopeStack, f)
  /\ PushNode("null", Identity, fileScopeStack')
  /\ IF f \in DOMAIN scene
     THEN reader' = Append(Advanced, [file |-> f, pos |-> 1]) /\ status' = "parse"
     ELSE reader' = Advanced /\ status' = "failed"
  /\ UNCHANGED <<scene, xformVars, stateVars, geomVars, walkVars>>

IncludeSkip(f, d) ==
  /\ f \notin DOMAIN includefileToNodeMap
  /\ ~(Unsigned(d) <= detailLevel)
  /\ Advance /\ Stays
  /\ UNCHANGED <<graphVars, xformVars, stateVars, geomVars, walkVars>>

Include ==
  /\ AtInclude
  /\ \E arg \in IncludeArgs :
       \/ IncludeSeen(arg[1])
       \/ IncludeNew(arg[1], arg[2])
       \/ IncludeSkip(arg[1], arg[2])

(* end of an included file: back in parseInclude *)
IncludeReturn ==
  /\ status = "parse" /\ AtEof /\ Len(reader) > 1
  /\ reader' = Pop(reader)
  /\ PopNode
  /\ fileScopeStack' = Pop(fileScopeStack)
  /\ Stays
  /\ UNCHANGED <<xformVars, stateVars, geomVars, walkVars>>

-----------------------------------------------------------------------------
(* Tokens that leave the graph's shape alone *)

ParseDetailLevel ==
  /\ At("d")
  /\ detailLevel' = Unsigned(Tok.detail)
  /\ Advance /\ Stays
  /\ UNCHANGED <<graphVars, xformVars, extMaterial, texture, geomVars, walkVars>>

ParseFill ==
  /\ At("f")
  /\ extMaterial' = Tok.mat
  /\ Advance /\ Stays
  /\ UNCHANGED <<graphVars, xformVars, texture, detailLevel, geomVars, walkVars>>

(* ParseMesh::parse and addMesh, which throws in the root node *)
ParseMesh ==
  /\ At("m")
  /\ texture' = Tok.tex
  /\ IF nodes[sceneNode].name = "root"
     THEN status' = "failed" /\ UNCHANGED <<nodes, reader>>
     ELSE /\ nodes' = [nodes EXCEPT ![sceneNode].mesh = Tok.mesh,
                                    ![sceneNode].material = extMaterial,
                                    ![sceneNode].textureFilename = Tok.tex]
          /\ Advance /\ UNCHANGED status
  /\ UNCHANGED <<scene, sceneNode, nodeStack, fileScopeStack, includefileToNodeMap,
                 xformVars, extMaterial, detailLevel, geomVars, walkVars>>

ParseSphereOrCone ==
  /\ At("s")
  /\ prims' = Append(prims, extMaterial)
  /\ Advance /\ Stays
  /\ UNCHANGED <<graphVars, xformVars, stateVars, batch, polys, walkVars>>

(* a quad becomes two triangles *)
PolyVerts == IF Tok.nverts = 4 /\ ~Tok.patch THEN 6 ELSE Tok.nverts

(* ParsePoly::parse; calcNormals throws unless every face is a triangle *)
ParsePoly ==
  /\ At("p")
  /\ IF Tok.patch
     THEN /\ polys' = Append(polys, PolyVerts)
          /\ Advance /\ UNCHANGED status
     ELSE /\ IF PolyVerts % 3 # 0
             THEN status' = "failed" /\ UNCHANGED reader
             ELSE UNCHANGED status /\ Advance
          /\ polys' = polys
  /\ UNCHANGED <<scene, graphVars, xformVars, stateVars, batch, prims, walkVars>>

(* a textured triangle joins the batch, which another texture flushes *)
ParseTexturedTriangle ==
  LET flush == Tok.tex # texture /\ batch # << >> IN
  /\ At("tt")
  /\ polys' = IF flush THEN Append(polys, 3 * Len(batch)) ELSE polys
  /\ batch' = Append(IF flush THEN << >> ELSE batch, Tok.tex)
  /\ texture' = Tok.tex
  /\ Advance /\ Stays
  /\ UNCHANGED <<graphVars, xformVars, extMaterial, detailLevel, prims, walkVars>>

ParseOther ==
  /\ At("other")
  /\ Advance /\ Stays
  /\ UNCHANGED <<graphVars, xformVars, stateVars, geomVars, walkVars>>

(* fault: an unknown code is pushed back instead of thrown *)
ParseError_Unread == At("bad") /\ UNCHANGED vars

ParseError ==
  /\ At("bad")
  /\ status' = "failed"
  /\ UNCHANGED <<scene, reader, graphVars, xformVars, stateVars, geomVars, walkVars>>

-----------------------------------------------------------------------------
(* End of the main file: load calls flattenSceneGraph_r on the root *)
ParseDone ==
  /\ status = "parse" /\ AtEof /\ Len(reader) = 1
  /\ status' = "flatten"
  /\ walk' = <<[node |-> 1, parentXform |-> Identity, depth |-> 1]>>
  /\ UNCHANGED <<scene, reader, graphVars, xformVars, stateVars, geomVars, flattened>>

Combined_Reversed(parentXform, xform) == xform \o parentXform   \* fault: local first
Combined(parentXform, xform) == parentXform \o xform

InstanceOf(n, xform) ==
  [meshData |-> nodes[n].mesh, material |-> nodes[n].material,
   textureFilename |-> nodes[n].textureFilename, xform |-> xform]

(* One call of flattenSceneGraph_r: the instance of the node, then its     *)
(* children before whatever was pending.  A call nested deeper than there  *)
(* are nodes is inside a cycle of the graph: the recursion cannot return.  *)
Flatten ==
  /\ status = "flatten" /\ walk # << >>
  /\ LET call == Head(walk)
         node == nodes[call.node]
         combinedXform == Combined(call.parentXform, node.xform)
         calls == [i \in DOMAIN node.children |->
                     [node |-> node.children[i], parentXform |-> combinedXform,
                      depth |-> call.depth + 1]]
     IN IF call.depth > Len(nodes)
        THEN status' = "overflow" /\ UNCHANGED walkVars
        ELSE /\ flattened' = IF node.mesh = None THEN flattened
                             ELSE Append(flattened, InstanceOf(call.node, combinedXform))
             /\ walk' = calls \o Tail(walk)
             /\ UNCHANGED status
  /\ UNCHANGED <<scene, reader, graphVars, xformVars, stateVars, geomVars>>

LoadReturn ==
  /\ status = "flatten" /\ walk = << >>
  /\ status' = "done"
  /\ UNCHANGED <<scene, reader, graphVars, xformVars, stateVars, geomVars, walkVars>>

Next ==
  \/ Load
  \/ StaticXform \/ AnimatedXform
  \/ EndStatic \/ EndAnimated \/ EndUnmatched
  \/ Include \/ IncludeReturn
  \/ ParseDetailLevel \/ ParseFill \/ ParseMesh
  \/ ParseSphereOrCone \/ ParsePoly \/ ParseTexturedTriangle
  \/ ParseOther \/ ParseError
  \/ ParseDone \/ Flatten \/ LoadReturn

(* load() is one call on one thread: it runs until it returns or throws *)
Spec == Init /\ [][Next]_vars /\ WF_vars(Next)
-----------------------------------------------------------------------------
(* Scenes as their authors meant them *)

Opens(tok) == tok.op \in {"xs", "x"}

(* Depth(text, i): how many transforms are open before token i *)
Depth(text, i) ==
  Cardinality({j \in 1..(i - 1) : Opens(text[j])})
    - Cardinality({j \in 1..(i - 1) : text[j].op = "}"})

(* every file closes the transforms it opens, and only those *)
Balanced(s) ==
  \A f \in DOMAIN s :
    /\ \A i \in DOMAIN s[f] : Depth(s[f], i + 1) >= 0
    /\ Depth(s[f], Len(s[f]) + 1) = 0

(* no file includes itself, directly or through others *)
AcyclicIncludes(s) ==
  \E rank \in [FileName -> 0..Cardinality(FileName)] :
    \A f \in DOMAIN s : \A i \in DOMAIN s[f] :
      /\ s[f][i].op # "i?"
      /\ s[f][i].op = "i" => rank[s[f][i].file] < rank[f]

-----------------------------------------------------------------------------
(* Properties *)

NodeIds == 1..Len(nodes)

(* scene nodes whose children are among the first n *)
NodeRecord(n) ==
  [name : XformName \cup {"root", "null", "static"},
   fileScope : FileName \cup {"root"},
   xform : Matrix,
   children : Seq(1..n),
   mesh : Mesh \cup {None},
   material : Material \cup {None},
   textureFilename : Texture \cup {None}]

ReaderTypeOK ==
  /\ status \in Status
  /\ reader \in Seq([file : DOMAIN scene, pos : Nat \ {0}])

GraphTypeOK ==
  /\ nodes \in Seq(NodeRecord(Len(nodes)))
  /\ sceneNode \in 0..Len(nodes)
  /\ nodeStack \in Seq(NodeIds)
  /\ fileScopeStack \in Seq(FileName \cup {"root"})
  /\ DOMAIN includefileToNodeMap \subseteq FileName
  /\ includefileToNodeMap \in [DOMAIN includefileToNodeMap -> NodeIds]

XformTypeOK ==
  /\ xformMatrix \in Matrix
  /\ xformStack \in Seq(Matrix)
  /\ xformTypeStack \in Seq({STATIC, ANIMATED})

StateTypeOK ==
  /\ extMaterial \in Material \cup {None}
  /\ texture \in Texture \cup {None}
  /\ detailLevel \in 0..(UIntRange - 1)
  /\ batch \in Seq(Texture)
  /\ prims \in Seq(Material \cup {None})
  /\ polys \in Seq(Nat)

WalkTypeOK ==
  /\ walk \in Seq([node : NodeIds, parentXform : Matrix, depth : Nat])
  /\ flattened \in Seq([meshData : Mesh, material : Material \cup {None},
                        textureFilename : Texture \cup {None}, xform : Matrix])

TypeOK == ReaderTypeOK /\ GraphTypeOK /\ XformTypeOK /\ StateTypeOK /\ WalkTypeOK

Statics(types) == {i \in DOMAIN types : types[i] = STATIC}

(* The four stacks of active_def, pushed and popped by three functions in  *)
(* two files, keep step with each other on every input, balanced or not:   *)
(* a scene node for every open transform and file, a saved matrix for      *)
(* every open static transform, a file scope for every open file, and      *)
(* active.sceneNode the top of the node stack.  So popNode never empties   *)
(* the node stack and the matrix stack never underflows (ParseXform::end). *)
StacksInStep ==
  status = "parse" =>
    /\ Len(nodeStack) = Len(xformTypeStack) + Len(fileScopeStack)
    /\ Len(xformStack) = Cardinality(Statics(xformTypeStack))
    /\ Len(fileScopeStack) = Len(reader)
    /\ Len(reader) > 0
    /\ sceneNode = Top(nodeStack)

(* Loading a file leaves ParseXform's error for an empty matrix stack to   *)
(* unmatched braces only: no step of a closing brace that has an open      *)
(* transform ends the load.                                                *)
MatchedBraceNeverFails ==
  [][At("}") /\ xformTypeStack # << >> => status' = "parse"]_vars

(* pushNode adds to the node on top: the node stack is a path of the graph *)
(* from the root, even after unbalanced files.                             *)
NodeStackIsPath ==
  status = "parse" =>
    /\ nodeStack[1] = 1
    /\ \A k \in 1..(Len(nodeStack) - 1) :
         \E c \in DOMAIN nodes[nodeStack[k]].children :
           nodes[nodeStack[k]].children[c] = nodeStack[k + 1]

(* "Since .aff files are only loaded once" (setMaterialState_r's comment): *)
(* a file has one subtree however often it is included, and the include    *)
(* map leads to it.                                                        *)
OneSubtreePerFile ==
  /\ \A m, n \in NodeIds :
       nodes[m].name = "null" /\ nodes[n].name = "null"
         /\ nodes[m].fileScope = nodes[n].fileScope => m = n
  /\ \A f \in DOMAIN includefileToNodeMap :
       LET n == nodes[includefileToNodeMap[f]] IN n.name = "null" /\ n.fileScope = f

PathProduct ==
  LET prod[k \in 0..Len(nodeStack)] ==
        IF k = 0 THEN Identity ELSE prod[k - 1] \o nodes[nodeStack[k]].xform
  IN  prod[Len(nodeStack)]

(* In balanced files the matrix ParseXform maintains with its own stack is *)
(* the product of the transforms of the nodes from the root to the active  *)
(* one, the product flattenSceneGraph_r will form.                         *)
MatrixIsPathProduct ==
  status = "parse" /\ Balanced(scene) => xformMatrix = PathProduct

(* Sharing the subtree of a repeated include keeps the scene graph free of *)
(* cycles when files are balanced and no file includes itself: neither     *)
(* setMaterialState_r nor flattenSceneGraph_r recurses for ever.           *)
GoodScenesNeverOverflow ==
  status = "overflow" => ~(Balanced(scene) /\ AcyclicIncludes(scene))

(* Of a scene whose files close their transforms, name what they include   *)
(* and never include a file that includes them, load() comes back with its *)
(* list or an exception, however malformed the rest is: no loop stops      *)
(* reading, no recursion over a shared subtree goes on for ever, no stack  *)
(* is used empty.  Nothing is promised of other scenes: of a file that     *)
(* includes itself load() does not return.                                 *)
LoadReturns ==
  Balanced(scene) /\ AcyclicIncludes(scene) => <>(status \in {"done", "failed"})
=============================================================================
