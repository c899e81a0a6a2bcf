--------------------------- MODULE ShaderObjects ---------------------------
(***************************************************************************)
(* Shader, Uniform and Material as owners of GL names: the programs of a   *)
(* shader's stages lie packed in the array pipeline_handles, a uniform     *)
(* keeps the location it finds first, and a material's id is an index into *)
(* the arrays of the final pass's program.                                 *)
(*                                                                         *)
(* The first shader loaded is the g-buffer's, the second the final pass's, *)
(* others are a node's own.  GL hands out the names of pipelines and those *)
(* of shader objects and programs from two name spaces, in order.  The     *)
(* four arrays of material data are one, its values what a material file   *)
(* says.                                                                   *)
(***************************************************************************)
EXTENDS Integers, Sequences, FiniteSetsExt

CONSTANTS
  Source,        \* texts of shaders
  Broken,        \* those that do not compile
  Declared,      \* [Source -> Seq(uniform)]: a text's uniforms, by location
  Loads,         \* files load() may be given: <<vertex, geometry, fragment>>
  Empty,         \* no file name, or the text of an empty file
  Missing,       \* a file that is not there
  Values,        \* what material files may say
  MaxShaders, MaxMaterials  \* bounds

Stage == 1..3

ASSUME SourceAssumption ==
  /\ {Empty, Missing} \cap Source = {} /\ Empty # Missing /\ Broken \subseteq Source
  /\ Loads \subseteq [Stage -> Source \cup {Empty, Missing}]

(* a uniform is named as GL reports it: a name and an index *)
ASSUME DeclaredAssumption == Declared \in [Source -> Seq(STRING \X Nat)]

(* uniforms *)
MaterialId == <<"material_id", 0>>
MaterialData(id) == <<"material_data", id>>

VARIABLES
  status,         \* "loading", "drawing", "down" or "failed"
  shaders,        \* the Shader objects, in the order of their construction
  pipelines,      \* GL: name -> program of every stage, or 0
  programs,       \* GL: name -> its text, and the values of its uniforms
  pipelineNames, objectNames,  \* GL: the names given so far
  materials,      \* Material objects; at...: the location a Uniform keeps
  drawn, sent     \* history: the material whose id was bound last, and
                  \* those whose data was bound

glVars == <<pipelines, programs, pipelineNames, objectNames>>
vars == <<status, shaders, glVars, materials, drawn, sent>>

Init ==
  /\ status = "loading" /\ shaders = << >> /\ materials = << >>
  /\ pipelines = << >> /\ programs = << >>
  /\ pipelineNames = 0 /\ objectNames = 0
  /\ drawn = 0 /\ sent = {}

-----------------------------------------------------------------------------
(* Shader *)

Given(texts) == {i \in Stage : texts[i] # Empty}

(* fault: each stage has a place of its own *)
Index_ByStage(texts, i) ==
  IF texts[i] = Empty THEN 0 ELSE i
(* where use() finds the program of a stage: they lie packed, from 1 *)
Index(texts, i) ==
  IF texts[i] = Empty THEN 0 ELSE Cardinality({j \in Given(texts) : j <= i})

(* pipeline_handles: generated pipelines, then link() puts programs over   *)
(* all but the first; all shader objects take a name before any program    *)
Handles(texts) ==
  LET n == Cardinality(Given(texts)) IN
  [k \in 0..n |-> IF k = 0 THEN pipelineNames + 1 ELSE objectNames + n + k]

(* link() goes through the stages in order *)
Linked(texts) ==
  [p \in {Handles(texts)[k] : k \in 1..Cardinality(Given(texts))} |->
     LET i == CHOOSE i \in Given(texts) :
                Handles(texts)[Cardinality({j \in Given(texts) : j <= i})] = p
         uniforms == IF texts[i] \in Broken THEN 0 ELSE Len(Declared[texts[i]])
     IN [text |-> texts[i], values |-> [l \in 0..(uniforms - 1) |-> 0]]]

(* glUseProgramStages refuses what is no linked program *)
Used(made, p) == IF p \in DOMAIN made /\ made[p].text \notin Broken THEN p ELSE 0

Plus(f, g) == [x \in DOMAIN f \cup DOMAIN g |-> IF x \in DOMAIN g THEN g[x] ELSE f[x]]

(* ShaderLoader::load: all the files are read before GL is called *)
Load(texts) ==
  LET n == Cardinality(Given(texts))
      h == Handles(texts)
      handle(i) == IF Index(texts, i) \in 1..n THEN h[Index(texts, i)] ELSE 0
  IN
  /\ status = "loading" /\ Len(shaders) < MaxShaders
  /\ \A i \in Stage : texts[i] # Missing
  /\ shaders' = Append(shaders, [texts |-> texts, handles |-> h, alive |-> TRUE,
                                 index |-> [i \in Stage |-> Index(texts, i)]])
  /\ programs' = Plus(programs, Linked(texts))
  /\ pipelines' = Plus(pipelines, [p \in {h[0]} |-> [i \in Stage |-> Used(programs', handle(i))]])
  /\ pipelineNames' = pipelineNames + n + 1 /\ objectNames' = objectNames + 2 * n
  /\ UNCHANGED <<status, materials, drawn, sent>>

(* "Failed to load file" *)
LoadFails(texts) ==
  /\ status = "loading" /\ Len(shaders) < MaxShaders
  /\ \E i \in Stage : texts[i] = Missing
  /\ status' = "failed"
  /\ UNCHANGED <<shaders, glVars, materials, drawn, sent>>

(* getVS, getGS and getFS *)
Get(shader, i) ==
  IF shader.index[i] \in DOMAIN shader.handles \ {0} THEN shader.handles[shader.index[i]] ELSE 0
FS(k) == Get(shaders[k], 3)

(* ~Shader, when the program ends or fails to start: all the handles are   *)
(* deleted as pipelines, and a program's name may be that of the pipeline  *)
(* of another shader                                                       *)
Destroy(k) ==
  /\ shaders[k].alive /\ status # "loading"
  /\ status' = IF status = "failed" THEN status ELSE "down"
  /\ shaders' = [shaders EXCEPT ![k].alive = FALSE]
  /\ LET h == shaders[k].handles
     IN  pipelines' = [p \in DOMAIN pipelines \ {h[j] : j \in DOMAIN h} |-> pipelines[p]]
  /\ UNCHANGED <<programs, pipelineNames, objectNames, materials, drawn, sent>>

-----------------------------------------------------------------------------
(* Uniform *)

(* glGetUniformLocation: -1 for a name or a program that is not there *)
GetUniformLocation(p, name) ==
  LET at == IF p \in DOMAIN programs
            THEN {l \in DOMAIN programs[p].values : Declared[programs[p].text][l + 1] = name}
            ELSE {}
  IN IF at = {} THEN -1 ELSE Min(at)

(* the location bind() uses and keeps *)
Location(kept, p, name) ==
  IF kept < 0 THEN GetUniformLocation(p, name) ELSE kept

-----------------------------------------------------------------------------
(* Material *)

(* final_pass->addMaterial(mat_loader->load(file)): the loader counts ids  *)
Registered == {m \in DOMAIN materials : materials[m].registered}
LoadMaterial(value) ==
  /\ status = "loading" /\ Len(shaders) >= 2 /\ Len(materials) < MaxMaterials
  /\ materials' = Append(materials, [id |-> Cardinality(Registered), value |-> value,
                                     registered |-> TRUE, atId |-> -1, atData |-> -1])
  /\ UNCHANGED <<status, shaders, glVars, drawn, sent>>

(* ParseFill::addMaterial: the id is 0, and the final pass is not told *)
BartMaterial(value) ==
  /\ status = "loading" /\ Len(shaders) >= 2 /\ Len(materials) < MaxMaterials
  /\ materials' = Append(materials, [id |-> 0, value |-> value,
                                     registered |-> FALSE, atId |-> -1, atData |-> -1])
  /\ UNCHANGED <<status, shaders, glVars, drawn, sent>>

(* initScene is done, and the main loop runs *)
StartDrawing ==
  /\ status = "loading" /\ Len(shaders) >= 2
  /\ status' = "drawing"
  /\ UNCHANGED <<shaders, glVars, materials, drawn, sent>>

(* fault: the program of the shader that was loaded last *)
IdProgram_Last == FS(Len(shaders))
(* the program a node binds its material's id in: the g-buffer's *)
IdProgram == FS(1)

(* glProgramUniform changes nothing when the program has no such location *)
BindId(m) ==
  LET p == IdProgram
      at == Location(materials[m].atId, p, MaterialId)
  IN
  /\ status = "drawing"
  /\ materials' = [materials EXCEPT ![m].atId = at]
  /\ programs' = IF p \in DOMAIN programs /\ at \in DOMAIN programs[p].values
                 THEN [programs EXCEPT ![p].values[at] = materials[m].id]
                 ELSE programs
  /\ drawn' = m
  /\ UNCHANGED <<status, shaders, pipelines, pipelineNames, objectNames, sent>>

(* Final_Pass::begin binds the data of all its materials, in their order *)
BindData ==
  LET p == FS(2)
      at == [m \in Registered |->
               Location(materials[m].atData, p, MaterialData(materials[m].id))]
      new(l, old) == LET ms == {m \in Registered : at[m] = l}
                     IN  IF ms = {} THEN old ELSE materials[Max(ms)].value
  IN
  /\ status = "drawing"
  /\ materials' = [m \in DOMAIN materials |->
                     IF m \in Registered THEN [materials[m] EXCEPT !.atData = at[m]]
                     ELSE materials[m]]
  /\ programs' = IF p \in DOMAIN programs
                 THEN [programs EXCEPT ![p].values = [l \in DOMAIN @ |-> new(l, @[l])]]
                 ELSE programs
  /\ sent' = Registered
  /\ UNCHANGED <<status, shaders, pipelines, pipelineNames, objectNames, drawn>>

Next ==
  \/ \E texts \in Loads : Load(texts) \/ LoadFails(texts)
  \/ \E v \in Values : LoadMaterial(v) \/ BartMaterial(v)
  \/ StartDrawing
  \/ \E m \in DOMAIN materials : BindId(m)
  \/ BindData
  \/ \E k \in DOMAIN shaders : Destroy(k)

Spec == Init /\ [][Next]_vars

-----------------------------------------------------------------------------
(* Properties *)

(* As long as no shader is destroyed, the pipeline of every shader runs,   *)
(* for every stage it was given a text for, the program made from that     *)
(* text, and its getters name the same program; a stage without a text is  *)
(* off, and one whose text does not compile too (Shader.cpp, 8-38).        *)
StagesAreOwn ==
  status \in {"loading", "drawing"} =>
    \A k \in DOMAIN shaders : \A i \in Stage :
      LET text == shaders[k].texts[i]
          p == Get(shaders[k], i)
      IN
      /\ IF text = Empty THEN p = 0 ELSE p \in DOMAIN programs /\ programs[p].text = text
      /\ pipelines[shaders[k].handles[0]][i] = (IF text \in Broken THEN 0 ELSE p)
      /\ p # 0 => \A other \in DOMAIN shaders, j \in Stage :
                    Get(shaders[other], j) = p => other = k /\ j = i

(* What the final pass looks up under the id the g-buffer's program holds  *)
(* is the data of the material bound last, once that data was sent: of     *)
(* however many materials the uniforms of the locations found first, and   *)
(* whatever shaders nodes load besides (Material.cpp, Uniform.cpp).        *)
MaterialsShown ==
  LET id == GetUniformLocation(FS(1), MaterialId)
      data == GetUniformLocation(FS(2), MaterialData(materials[drawn].id))
  IN drawn # 0 /\ drawn \in sent /\ id >= 0 /\ data >= 0 =>
       /\ programs[FS(1)].values[id] = materials[drawn].id
       /\ programs[FS(2)].values[data] = materials[drawn].value
=============================================================================
