------------------------ MODULE FramePipeline_proofs ------------------------
(***************************************************************************)
(* Theorems about FramePipeline, for every scene that starts with the      *)
(* spacejet: however many nodes of whatever kinds follow it, for all       *)
(* textures, materials and window sizes, over any number of frames.        *)
(***************************************************************************)
EXTENDS FramePipeline, SequenceTheorems, WellFoundedInduction, TLAPS

(* What holds at each step of a frame.  The properties speak of the moment *)
(* a node or the quad is drawn; what makes them true is what the steps     *)
(* before, and the frame before, left in the context.                      *)
InGBuffer == pc \in {"draw", "bound"}

PositionOK ==
  /\ InGBuffer => next \in Nat \ {0}
  /\ pc = "bound" => next \in 1..Len(scene) /\ TheNode.kind # "optix"

Stack ==
  CASE pc \in {"idle", "drawn"} -> << >>
    [] pc = "quad"  -> <<"final">>
    [] pc = "draw"  -> <<"deferred">>
    [] pc = "bound" -> IF TheNode.kind = "spacejet" THEN <<"deferred", "spacejet">>
                       ELSE <<"deferred">>

ShadersOK ==
  /\ boundShaderStack = Stack
  /\ pipeline = CASE pc \in {"idle", "drawn"} -> None
                  [] pc = "quad"  -> "final"
                  [] pc = "draw"  -> "deferred"
                  [] pc = "bound" -> OwnProgram(TheNode)

TargetOK ==
  /\ framebuffer = IF InGBuffer THEN "gbuffer" ELSE "window"
  /\ IF InGBuffer THEN viewport = passSize /\ temp = window ELSE viewport = window

(* no texture of the g-buffer is bound but under the quad; once a frame    *)
(* has drawn its first node, the spacejet, unit 0 is empty between nodes   *)
UnitsOK ==
  /\ pc # "quad" => \A u \in Units : bound[u] \notin Attachment
  /\ pc = "draw" /\ next > 1 => bound[0] = None
  /\ pc = "bound" => /\ \A slot \in DOMAIN TheNode.textures : bound[slot] = TheNode.textures[slot].tex
                     /\ 0 \notin DOMAIN TheNode.textures => bound[0] = None
  /\ pc = "quad" => /\ bound[0] = "TEX_RAY" /\ bound[1] = "TEX_DIFF" /\ bound[2] = "TEX_POS" /\ bound[3] = "TEX_NORM"
                    /\ samplers["final"] = FinalSamplers

SamplersOK ==
  /\ \A p \in {"deferred", "spacejet"} : samplers[p]["diffuse_tex"] = 0
  /\ pc = "bound" =>
       \A slot \in DOMAIN TheNode.textures :
         samplers[pipeline][TheNode.textures[slot].sampler] = slot

IInv == TypeOK /\ PositionOK /\ ShadersOK /\ TargetOK /\ UnitsOK /\ SamplersOK

-----------------------------------------------------------------------------
(* The node about to be drawn *)

LEMMA NodeFacts ==
  ASSUME scene \in SceneLists, next \in 1..Len(scene)
  PROVE  /\ TheNode \in Node
         /\ TheNode.textures \in Slots
         /\ DOMAIN TheNode.textures \subseteq {0, 1}
         /\ \A slot \in DOMAIN TheNode.textures :
              /\ TheNode.textures[slot].tex \in Texture
              /\ TheNode.textures[slot].program = OwnProgram(TheNode)
              /\ TheNode.textures[slot].sampler =
                   IF slot = 0 THEN "diffuse_tex" ELSE "normal_tex"
         /\ next = 1 => TheNode.kind = "spacejet" /\ DOMAIN TheNode.textures = {0, 1}
  <1>1. scene \in Seq(Node) /\ scene[1].kind = "spacejet" /\ DOMAIN scene[1].textures = {0, 1}
    BY ScenesAssumption
  <1>2. TheNode \in Node
    BY <1>1, ElementOfSeq DEF TheNode
  <1>3. TheNode.textures \in Slots
    BY <1>2 DEF Node
  <1>4. PICK slots \in SUBSET {0, 1} :
          TheNode.textures \in
            [slots -> [tex : Texture, program : Program, sampler : {"diffuse_tex", "normal_tex"}]]
    BY <1>3 DEF Slots
  <1>5. DOMAIN TheNode.textures = slots
    BY <1>4
  <1>6. \A slot \in slots : TheNode.textures[slot].tex \in Texture
    BY <1>4
  <1>7. next \in DOMAIN scene
    BY <1>1
  <1>8. \A slot \in DOMAIN TheNode.textures :
          /\ TheNode.textures[slot].program = OwnProgram(TheNode)
          /\ TheNode.textures[slot].sampler = IF slot = 0 THEN "diffuse_tex" ELSE "normal_tex"
    BY <1>7, SamplersAssumption DEF TheNode
  <1>9. next = 1 => TheNode.kind = "spacejet" /\ DOMAIN TheNode.textures = {0, 1}
    BY <1>1 DEF TheNode
  <1> QED BY <1>2, <1>3, <1>5, <1>6, <1>8, <1>9

(* the two samplers are told apart by their slot *)
LEMMA SlotOfSampler ==
  ASSUME scene \in SceneLists, next \in 1..Len(scene), NEW slot \in DOMAIN TheNode.textures
  PROVE  slot = CHOOSE u \in DOMAIN TheNode.textures :
                  TheNode.textures[u].sampler = TheNode.textures[slot].sampler
  <1>1. \A u \in DOMAIN TheNode.textures :
          TheNode.textures[u].sampler = TheNode.textures[slot].sampler => u = slot
    BY NodeFacts
  <1> QED BY <1>1

LEMMA InitInvariant == Init => IInv
  <1> SUFFICES ASSUME Init PROVE IInv
    OBVIOUS
  <1> USE DEF Init
  <1>1. TypeOK
    BY NamesAssumption DEF TypeOK, Units, Program, Attachment
  <1>2. PositionOK /\ ShadersOK /\ TargetOK
    BY DEF PositionOK, ShadersOK, TargetOK, InGBuffer, Stack
  <1>3. UnitsOK
    BY NamesAssumption DEF UnitsOK, Units
  <1>4. SamplersOK
    BY DEF SamplersOK, Program
  <1> QED BY <1>1, <1>2, <1>3, <1>4 DEF IInv

-----------------------------------------------------------------------------
(* Each step of the frame keeps the invariant *)

LEMMA ReshapeKeeps ==
  ASSUME IInv, NEW size \in Size, Reshape(size)
  PROVE  IInv'
  <1> USE DEF IInv, Reshape, frameVars, targetVars, shaderVars, unitVars, uniVars, imageVars
  <1>1. TypeOK'
    BY DEF TypeOK
  <1>2. PositionOK' /\ ShadersOK' /\ TargetOK'
    BY DEF PositionOK, ShadersOK, TargetOK, InGBuffer, Stack
  <1>3. UnitsOK' /\ SamplersOK'
    BY DEF UnitsOK, SamplersOK
  <1> QED BY <1>1, <1>2, <1>3

LEMMA BeginGBufferKeeps ==
  ASSUME IInv, BeginGBuffer
  PROVE  IInv'
  <1> USE DEF IInv, BeginGBuffer, uniVars, PushBind
  <1>1. TypeOK'
    BY DEF TypeOK, Program, Units
  <1>2. PositionOK' /\ TargetOK'
    BY DEF PositionOK, TargetOK, InGBuffer, TypeOK
  <1>3. ShadersOK'
    BY DEF ShadersOK, Stack
  <1>4. UnitsOK' /\ SamplersOK'
    BY DEF UnitsOK, SamplersOK
  <1> QED BY <1>1, <1>2, <1>3, <1>4

LEMMA SkipOptixKeeps ==
  ASSUME IInv, SkipOptix
  PROVE  IInv'
  <1> USE DEF IInv, SkipOptix, AtNode, sizeVars, targetVars, shaderVars, unitVars, uniVars, imageVars
  <1>1. TypeOK'
    BY DEF TypeOK
  <1>2. PositionOK' /\ ShadersOK' /\ TargetOK'
    BY DEF PositionOK, ShadersOK, TargetOK, InGBuffer, Stack
  <1>3. next > 1
    <2>1. next \in 1..Len(scene)
      BY ScenesAssumption DEF PositionOK, InGBuffer, TypeOK
    <2> QED BY <2>1, NodeFacts DEF TypeOK
  <1>4. UnitsOK' /\ SamplersOK'
    BY <1>3 DEF UnitsOK, SamplersOK, TypeOK
  <1> QED BY <1>1, <1>2, <1>4

LEMMA BindNodeKeeps ==
  ASSUME IInv, BindNode
  PROVE  IInv'
  <1> USE DEF IInv, BindNode, AtNode
  <1>1. /\ scene \in SceneLists /\ next \in 1..Len(scene)
        /\ UNCHANGED <<next, scene, TheNode>>
    BY ScenesAssumption DEF PositionOK, InGBuffer, TypeOK, TheNode
  <1>3. TypeOK'
    <2>1. boundShaderStack' \in Seq(Program) /\ pipeline' \in Program \cup {None}
      <3>1. CASE TheNode.kind = "spacejet"
        <4>1. boundShaderStack' = Append(boundShaderStack, "spacejet") /\ pipeline' = "spacejet"
          BY <3>1 DEF PushBind
        <4>2. boundShaderStack \in Seq(Program) /\ "spacejet" \in Program
          BY DEF TypeOK, Program
        <4> HIDE DEF IInv, BindNode
        <4> QED BY <4>1, <4>2, AppendProperties
      <3>2. CASE TheNode.kind # "spacejet"
        BY <3>2 DEF TypeOK, shaderVars
      <3> QED BY <3>1, <3>2
    <2>2. bound' \in [Units -> Texture \cup Attachment \cup {"TEX_RAY", None}]
      BY <1>1, NodeFacts DEF TypeOK
    <2>3. unit' \in Units
      <3>1. unit \in Units /\ DOMAIN TheNode.textures \subseteq Units
        BY <1>1, NodeFacts DEF TypeOK, Units
      <3> QED BY <3>1 DEF LastUnit
    <2>4. ASSUME NEW p \in Program, NEW t \in DOMAIN samplers[p]
          PROVE  samplers'[p][t] \in {0, 1} \cup {samplers[p][t]}
      <3>1. CASE \E u \in DOMAIN TheNode.textures :
                   TheNode.textures[u].program = p /\ TheNode.textures[u].sampler = t
        <4>1. (CHOOSE u \in DOMAIN TheNode.textures : TheNode.textures[u].sampler = t)
                \in DOMAIN TheNode.textures
          BY <3>1
        <4> QED BY <3>1, <4>1, <1>1, NodeFacts
      <3> QED BY <3>1
    <2>5. /\ DOMAIN samplers' = Program
          /\ \A p \in Program : samplers'[p] = [t \in DOMAIN samplers[p] |-> samplers'[p][t]]
      OBVIOUS
    <2>6. samplers'["final"] \in [Attachment \cup {"TEX_RAY"} -> Units]
      <3> DEFINE Name == Attachment \cup {"TEX_RAY"}
      <3>1. "final" \in Program /\ samplers["final"] \in [Name -> Units]
        BY DEF TypeOK, Program
      <3> HIDE DEF Name
      <3>2. ASSUME NEW t \in Name
            PROVE  samplers'["final"][t] \in Units
        <4>1. /\ samplers["final"][t] \in Units /\ {0, 1} \subseteq Units
              /\ t \in DOMAIN samplers["final"]
          BY <3>1 DEF Units
        <4>2. samplers'["final"][t] \in {0, 1} \cup {samplers["final"][t]}
          BY <2>4, <3>1, <4>1
        <4> HIDE DEF IInv, BindNode
        <4> QED BY <4>1, <4>2
      <3>3. samplers'["final"] = [t \in Name |-> samplers'["final"][t]]
        BY <2>5, <3>1
      <3> HIDE DEF IInv, BindNode
      <3>4. samplers'["final"] \in [Name -> Units]
        BY <3>2, <3>3
      <3> QED BY <3>4 DEF Name
    <2>7. ASSUME NEW p \in {"deferred", "spacejet"}
          PROVE  samplers'[p] \in [{"diffuse_tex", "normal_tex"} -> Units]
      <3>1. p \in Program /\ samplers[p] \in [{"diffuse_tex", "normal_tex"} -> Units]
        BY DEF TypeOK, Program
      <3>2. ASSUME NEW t \in {"diffuse_tex", "normal_tex"}
            PROVE  samplers'[p][t] \in Units
        <4>1. samplers[p][t] \in Units /\ {0, 1} \subseteq Units /\ t \in DOMAIN samplers[p]
          BY <3>1 DEF Units
        <4>2. samplers'[p][t] \in {0, 1} \cup {samplers[p][t]}
          BY <2>4, <3>1, <4>1
        <4> HIDE DEF IInv, BindNode
        <4> QED BY <4>1, <4>2
      <3>3. samplers'[p] = [t \in {"diffuse_tex", "normal_tex"} |-> samplers'[p][t]]
        BY <2>5, <3>1
      <3> QED BY <3>2, <3>3
    <2>8. materialId' \in [{"deferred", "spacejet"} -> 0..15]
      <3>1. TheNode.material \in Material \cup {None}
        BY <1>1, NodeFacts DEF Node
      <3> QED BY <3>1, MaterialsAssumption DEF TypeOK
    <2> QED BY <1>1, <2>1, <2>2, <2>3, <2>5, <2>6, <2>7, <2>8
            DEF TypeOK, sizeVars, targetVars, imageVars
  <1>4. PositionOK' /\ TargetOK'
    BY <1>1 DEF PositionOK, TargetOK, InGBuffer, sizeVars, targetVars
  <1>5. ShadersOK'
    BY <1>1 DEF ShadersOK, Stack, OwnProgram, PushBind, shaderVars
  <1>6. UnitsOK'
    <2>1. \A u \in Units : bound'[u] \notin Attachment
      BY <1>1, NodeFacts, NamesAssumption DEF UnitsOK
    <2>2. \A slot \in DOMAIN TheNode.textures : bound'[slot] = TheNode.textures[slot].tex
      BY <1>1, NodeFacts DEF Units
    <2>3. 0 \notin DOMAIN TheNode.textures => bound'[0] = None
      BY <1>1, NodeFacts DEF UnitsOK, Units
    <2> QED BY <1>1, <2>1, <2>2, <2>3 DEF UnitsOK
  <1>7. SamplersOK'
    <2>1. ASSUME NEW p \in {"deferred", "spacejet"}
          PROVE  samplers'[p]["diffuse_tex"] = 0
      <3>1. \A u \in DOMAIN TheNode.textures :
              TheNode.textures[u].sampler = "diffuse_tex" => u = 0
        BY <1>1, NodeFacts
      <3>2. "diffuse_tex" \in DOMAIN samplers[p] /\ samplers[p]["diffuse_tex"] = 0 /\ p \in Program
        BY DEF TypeOK, SamplersOK, Program
      <3> QED BY <3>1, <3>2
    <2>2. ASSUME NEW slot \in DOMAIN TheNode.textures
          PROVE  samplers'[OwnProgram(TheNode)][TheNode.textures[slot].sampler] = slot
      <3>1. /\ TheNode.textures[slot].program = OwnProgram(TheNode)
            /\ TheNode.textures[slot].sampler \in {"diffuse_tex", "normal_tex"}
        BY <1>1, NodeFacts
      <3>2. OwnProgram(TheNode) \in {"deferred", "spacejet"} /\ OwnProgram(TheNode) \in Program
        BY DEF OwnProgram, Program
      <3>3. TheNode.textures[slot].sampler \in DOMAIN samplers[OwnProgram(TheNode)]
        BY <3>1, <3>2 DEF TypeOK
      <3> QED BY <3>1, <3>2, <3>3, <1>1, SlotOfSampler
    <2>3. pipeline' = OwnProgram(TheNode)
      BY <1>1, <1>5 DEF ShadersOK
    <2> QED BY <1>1, <2>1, <2>2, <2>3 DEF SamplersOK
  <1> QED BY <1>3, <1>4, <1>5, <1>6, <1>7

LEMMA DrawNodeKeeps ==
  ASSUME IInv, DrawNode
  PROVE  IInv'
  <1> USE DEF IInv, DrawNode
  <1>1. /\ scene \in SceneLists /\ next \in 1..Len(scene)
        /\ pipeline \in {"deferred", "spacejet"}
    BY DEF TypeOK, PositionOK, ShadersOK, OwnProgram
  <1>2. /\ boundShaderStack' = <<"deferred">> /\ pipeline' = "deferred"
    BY <1>1 DEF ShadersOK, Stack, PopBind, shaderVars, OwnProgram
  <1>3. Sampled("diffuse_tex") \in Texture \cup Attachment \cup {"TEX_RAY", None}
    BY <1>1 DEF Sampled, TypeOK
  <1>4. TheNode.material \in Material \cup {None}
    BY <1>1, NodeFacts DEF Node
  <1>5. TypeOK'
    <2>1. image' \subseteq [material : Material \cup {None}, id : 0..15,
                            tex : Texture \cup Attachment \cup {"TEX_RAY", None}]
      BY <1>1, <1>3, <1>4 DEF TypeOK
    <2>2. bound' \in [Units -> Texture \cup Attachment \cup {"TEX_RAY", None}]
      BY DEF TypeOK
    <2>3. unit' \in Units
      <3>1. unit \in Units /\ DOMAIN TheNode.textures \subseteq Units
        BY <1>1, NodeFacts DEF TypeOK, Units
      <3>2. unit' \in LastUnit(TheNode)
        OBVIOUS
      <3> HIDE DEF IInv, DrawNode
      <3> QED BY <3>1, <3>2 DEF LastUnit
    <2> QED BY <1>2, <2>1, <2>2, <2>3 DEF TypeOK, Program, sizeVars, targetVars, uniVars
  <1>6. PositionOK' /\ TargetOK'
    BY <1>1 DEF PositionOK, TargetOK, InGBuffer, sizeVars, targetVars
  <1>7. ShadersOK'
    BY <1>2 DEF ShadersOK, Stack
  <1>8. UnitsOK'
    <2>1. \A u \in Units : bound'[u] \notin Attachment
      BY NamesAssumption DEF UnitsOK
    <2>2. bound'[0] = None
      <3>1. CASE 0 \in DOMAIN TheNode.textures
        BY <3>1 DEF Units
      <3>2. CASE 0 \notin DOMAIN TheNode.textures
        BY <3>2 DEF Units, UnitsOK
      <3> QED BY <3>1, <3>2
    <2> QED BY <2>1, <2>2 DEF UnitsOK
  <1>9. SamplersOK'
    BY DEF SamplersOK, uniVars
  <1> QED BY <1>5, <1>6, <1>7, <1>8, <1>9

LEMMA EndGBufferKeeps ==
  ASSUME IInv, EndGBuffer
  PROVE  IInv'
  <1> USE DEF IInv, EndGBuffer
  <1>1. boundShaderStack' = << >> /\ pipeline' = None
    BY DEF ShadersOK, Stack, PopBind
  <1>2. TypeOK'
    BY <1>1 DEF TypeOK, TargetOK, InGBuffer, unitVars, uniVars, imageVars
  <1>3. PositionOK' /\ ShadersOK' /\ TargetOK'
    BY <1>1 DEF PositionOK, ShadersOK, TargetOK, InGBuffer, Stack
  <1>4. UnitsOK' /\ SamplersOK'
    BY DEF UnitsOK, SamplersOK, unitVars, uniVars
  <1> QED BY <1>2, <1>3, <1>4

(* a set of positions that is not empty has a last one: of two materials   *)
(* with the same id the later one's data stays in the uniform              *)
LEMMA LargestExists ==
  ASSUME NEW n \in Nat, NEW S, S \subseteq 1..n, S # {}
  PROVE  \E k \in S : \A j \in S : j <= k
  <1> DEFINE T == {n - k : k \in S}
  <1>1. T \in SUBSET Nat
    OBVIOUS
  <1>2. PICK t \in T : TRUE
    OBVIOUS
  <1>3. PICK m \in T : \A e \in T : m <= e
    <2> DEFINE Less == OpToRel(<, Nat)
    <2>1. IsWellFoundedOn(Less, Nat)
      BY NatLessThanWellFounded
    <2>2. \A a, b \in Nat : <<a, b>> \in Less <=> a < b
      BY DEF OpToRel
    <2> HIDE DEF T, Less
    <2>3. PICK l \in T : \A e \in T : <<e, l>> \notin Less
      BY <1>1, <1>2, <2>1, WFMin
    <2>4. ASSUME NEW e \in T PROVE l <= e
      <3>1. e \in Nat /\ l \in Nat
        BY <1>1
      <3>2. ~(e < l)
        BY <2>2, <2>3, <3>1
      <3> QED BY <3>1, <3>2
    <2> QED BY <2>4
  <1>4. PICK k \in S : m = n - k
    BY <1>3
  <1>5. ASSUME NEW j \in S PROVE j <= k
    <2>1. n - k <= n - j
      BY <1>3, <1>4
    <2>2. j \in Int /\ k \in Int /\ n \in Int
      OBVIOUS
    <2> QED BY <2>1, <2>2
  <1> QED BY <1>5

LEMMA BeginFinalKeeps ==
  ASSUME IInv, BeginFinal
  PROVE  IInv'
  <1> USE DEF IInv, BeginFinal
  <1>1. boundShaderStack' = <<"final">> /\ pipeline' = "final"
    BY DEF ShadersOK, Stack, PushBind
  <1>2. /\ bound' \in [Units -> Texture \cup Attachment \cup {"TEX_RAY", None}]
        /\ bound'[0] = "TEX_RAY" /\ bound'[1] = "TEX_DIFF"
        /\ bound'[2] = "TEX_POS" /\ bound'[3] = "TEX_NORM"
    BY DEF TypeOK, BindRT, TargetAt, Units, Attachment
  <1>3. FinalSamplers \in [Attachment \cup {"TEX_RAY"} -> Units]
    BY DEF FinalSamplers, Attachment, Units
  <1>4. /\ DOMAIN samplers' = Program /\ samplers'["final"] = FinalSamplers
        /\ samplers'["deferred"] = samplers["deferred"]
        /\ samplers'["spacejet"] = samplers["spacejet"]
    BY DEF TypeOK, Program
  <1>5. materialData' \in [0..15 -> Material \cup {None}]
    <2>1. ASSUME NEW id \in 0..15
          PROVE  DataOf(id) \in Material \cup {None}
      <3> DEFINE set == {k \in DOMAIN Registered : Id[Registered[k]] = id}
      <3>1. CASE set = {}
        BY <3>1 DEF DataOf, TypeOK
      <3>2. CASE set # {}
        <4>1. PICK k \in set : \A j \in set : j <= k
          <5>1. set \subseteq 1..Len(Registered) /\ Len(Registered) \in Nat
            BY MaterialsAssumption
          <5> QED BY <3>2, <5>1, LargestExists
        <4> DEFINE last == CHOOSE i \in set : \A j \in set : j <= i
        <4>2. last \in set
          BY <4>1
        <4>3. DataOf(id) = Registered[last]
          BY <3>2 DEF DataOf
        <4>4. last \in DOMAIN Registered
          BY <4>2
        <4> HIDE DEF last, set
        <4> QED BY <4>3, <4>4, MaterialsAssumption
      <3> QED BY <3>1, <3>2
    <2> QED BY <2>1
  <1>6. TypeOK'
    BY <1>1, <1>2, <1>3, <1>4, <1>5 DEF TypeOK, Program, Units, sizeVars, targetVars, imageVars
  <1>7. PositionOK' /\ ShadersOK' /\ TargetOK'
    BY <1>1 DEF PositionOK, ShadersOK, TargetOK, InGBuffer, Stack, sizeVars, targetVars
  <1>8. UnitsOK' /\ SamplersOK'
    BY <1>2, <1>4 DEF UnitsOK, SamplersOK
  <1> QED BY <1>6, <1>7, <1>8

LEMMA EndFinalKeeps ==
  ASSUME IInv, EndFinal
  PROVE  IInv'
  <1> USE DEF IInv, EndFinal
  <1>1. boundShaderStack' = << >> /\ pipeline' = None
    BY DEF ShadersOK, Stack, PopBind
  <1>2. /\ bound' \in [Units -> Texture \cup Attachment \cup {"TEX_RAY", None}]
        /\ \A u \in Units : bound'[u] \in {"TEX_RAY", None}
    BY DEF TypeOK, UnitsOK, UnbindRT, Units
  <1>3. TypeOK'
    BY <1>1, <1>2 DEF TypeOK, Units, sizeVars, targetVars, uniVars, imageVars
  <1>4. PositionOK' /\ ShadersOK' /\ TargetOK'
    BY <1>1 DEF PositionOK, ShadersOK, TargetOK, InGBuffer, Stack, sizeVars, targetVars
  <1>5. UnitsOK' /\ SamplersOK'
    <2>1. \A u \in Units : bound'[u] \notin Attachment
      BY <1>2, NamesAssumption DEF Attachment
    <2> QED BY <2>1 DEF UnitsOK, SamplersOK, uniVars
  <1> QED BY <1>3, <1>4, <1>5

LEMMA Inductive ==
  ASSUME IInv, [Next]_vars
  PROVE  IInv'
  <1>1. CASE BeginGBuffer
    BY <1>1, BeginGBufferKeeps
  <1>2. CASE SkipOptix
    BY <1>2, SkipOptixKeeps
  <1>3. CASE BindNode
    BY <1>3, BindNodeKeeps
  <1>4. CASE DrawNode
    BY <1>4, DrawNodeKeeps
  <1>5. CASE EndGBuffer
    BY <1>5, EndGBufferKeeps
  <1>6. CASE BeginFinal
    BY <1>6, BeginFinalKeeps
  <1>7. CASE EndFinal
    BY <1>7, EndFinalKeeps
  <1>8. CASE \E size \in Size : Reshape(size)
    BY <1>8, ReshapeKeeps
  <1>9. CASE UNCHANGED vars
    <2> USE <1>9 DEF vars, frameVars, sizeVars, targetVars, shaderVars, unitVars, uniVars, imageVars, IInv
    <2>1. TypeOK'
      BY DEF TypeOK
    <2>2. PositionOK' /\ ShadersOK' /\ TargetOK'
      BY DEF PositionOK, ShadersOK, TargetOK, InGBuffer, Stack, TheNode, OwnProgram
    <2>3. UnitsOK' /\ SamplersOK'
      BY DEF UnitsOK, SamplersOK, TheNode
    <2> QED BY <2>1, <2>2, <2>3
  <1> QED BY <1>1, <1>2, <1>3, <1>4, <1>5, <1>6, <1>7, <1>8, <1>9 DEF Next, Frame

(* At every step of every frame the context is as the passes and nodes     *)
(* expect it: what render() binds, the same render() unbinds.              *)
THEOREM FrameInvariant == Spec => []IInv
  <1> QED BY InitInvariant, Inductive, PTL DEF Spec

-----------------------------------------------------------------------------
(* What the invariant says of the moments something is drawn *)

(* Every state of the frame is of its type. *)
THEOREM FrameTypeCorrect == Spec => []TypeOK
  <1>1. IInv => TypeOK
    BY DEF IInv
  <1> QED BY <1>1, FrameInvariant, PTL

(* Nothing drawn into the g-buffer's FBO samples a texture of that FBO,    *)
(* though Final_Pass::begin binds them to the units meshes use.            *)
THEOREM NeverFeedsBack == Spec => []NoFeedbackLoop
  <1>1. IInv => NoFeedbackLoop
    BY DEF IInv, TargetOK, UnitsOK, NoFeedbackLoop, InGBuffer
  <1> QED BY <1>1, FrameInvariant, PTL

(* push_bind and pop_bind are in balance: the program in use is that of    *)
(* the pass or of the spacejet, and none is left when the frame ends.      *)
THEOREM ProgramMeant == Spec => []ProgramInUse
  <1>1. IInv => ProgramInUse
    BY DEF IInv, TypeOK, ShadersOK, Stack, ProgramInUse
  <1> QED BY <1>1, FrameInvariant, PTL

(* A node is drawn with the textures bound in its own render(), and with   *)
(* none if it has none.                                                    *)
THEOREM OwnTextures == Spec => []DrawsOwnTextures
  <1>1. IInv => DrawsOwnTextures
    <2> SUFFICES ASSUME IInv, pc = "bound" PROVE DrawsOwnTextures
      BY DEF DrawsOwnTextures
    <2> USE DEF IInv
    <2>1. pipeline \in {"deferred", "spacejet"}
      BY DEF ShadersOK, OwnProgram
    <2> QED BY <2>1 DEF DrawsOwnTextures, Sampled, UnitsOK, SamplersOK
  <1> QED BY <1>1, FrameInvariant, PTL

(* The three samplers of the final pass read the three textures of the     *)
(* g-buffer, whatever the frame before left bound.                         *)
THEOREM QuadReadsGBuffer == Spec => []FinalReadsGBuffer
  <1>1. IInv => FinalReadsGBuffer
    BY DEF IInv, UnitsOK, FinalReadsGBuffer, FinalSamplers, Attachment
  <1> QED BY <1>1, FrameInvariant, PTL

(* GBuffer_Pass::end gives the window's viewport back.                     *)
THEOREM ViewportRestored == Spec => []ViewportFollowsWindow
  <1>1. IInv => ViewportFollowsWindow
    BY DEF IInv, TargetOK, InGBuffer, ViewportFollowsWindow
  <1> QED BY <1>1, FrameInvariant, PTL

-----------------------------------------------------------------------------
(* The clear of a frame *)

(* The frame being drawn, if any, began with all draw buffers set. *)
WholeClear ==
  /\ drawBuffers = Attachment
  /\ pc # "idle" => cleared = Attachment

LEMMA WholeClearKept ==
  ASSUME WholeClear, [Next]_vars
  PROVE  WholeClear'
<1>1. CASE BeginGBuffer
  BY <1>1 DEF BeginGBuffer, WholeClear
<1>2. CASE SkipOptix \/ BindNode \/ DrawNode \/ EndGBuffer
  BY <1>2 DEF SkipOptix, BindNode, DrawNode, EndGBuffer, AtNode, WholeClear, targetVars, imageVars
<1>3. CASE BeginFinal \/ EndFinal
  BY <1>3 DEF BeginFinal, EndFinal, WholeClear, targetVars, imageVars
<1>4. CASE \E size \in Size : Reshape(size)
  BY <1>4 DEF Reshape, WholeClear, frameVars, targetVars, imageVars
<1>5. CASE UNCHANGED vars
  BY <1>5 DEF vars, frameVars, targetVars, imageVars, WholeClear
<1> QED
  BY <1>1, <1>2, <1>3, <1>4, <1>5 DEF Next, Frame

(* GBuffer_Pass::begin sets the draw buffers after its clear, so that a    *)
(* frame that ran to its quad leaves them all set; and from the end of     *)
(* such a frame on, no quad ever reads an attachment its own frame did not *)
(* clear.  This is ClearedFromSecondFrame but for a frame's being drawn.   *)
THEOREM ClearedOnceSet ==
  Spec => /\ [](pc = "quad" => drawBuffers = Attachment)
          /\ []((pc = "idle" /\ drawBuffers = Attachment)
                   => [](pc = "quad" => cleared = Attachment))
<1> DEFINE Set == pc # "idle" => drawBuffers = Attachment
           Ready == pc = "idle" /\ drawBuffers = Attachment
           Clear == pc = "quad" => cleared = Attachment
           Q == pc = "quad" => drawBuffers = Attachment
<1>1. Init => Set
  BY DEF Init
<1>2. Set /\ [Next]_vars => Set'
  <2> SUFFICES ASSUME Set, [Next]_vars PROVE Set'
    OBVIOUS
  <2>1. CASE BeginGBuffer
    BY <2>1 DEF BeginGBuffer
  <2>2. CASE SkipOptix \/ BindNode \/ DrawNode \/ EndGBuffer
    BY <2>2 DEF SkipOptix, BindNode, DrawNode, EndGBuffer, AtNode, targetVars
  <2>3. CASE BeginFinal \/ EndFinal
    BY <2>3 DEF BeginFinal, EndFinal, targetVars
  <2>4. CASE \E size \in Size : Reshape(size)
    BY <2>4 DEF Reshape, frameVars
  <2>5. CASE UNCHANGED vars
    BY <2>5 DEF vars, frameVars, targetVars
  <2> QED
    BY <2>1, <2>2, <2>3, <2>4, <2>5 DEF Next, Frame
<1>3. Set => Q
  OBVIOUS
<1>4. Ready => WholeClear
  BY DEF WholeClear
<1>5. WholeClear /\ [Next]_vars => WholeClear'
  BY WholeClearKept
<1>6. WholeClear => Clear
  BY DEF WholeClear
<1> HIDE DEF Set, Ready, Clear, Q
<1>7. Spec => []Q
  BY <1>1, <1>2, <1>3, PTL DEF Spec
<1>8. Spec => [](Ready => []Clear)
  BY <1>4, <1>5, <1>6, PTL DEF Spec
<1> QED
  BY <1>7, <1>8 DEF Q, Ready, Clear
=============================================================================
