------------------------ MODULE ShaderObjects_proofs ------------------------
(***************************************************************************)
(* The safety properties of ShaderObjects, for any texts, any number of    *)
(* shaders and of materials.  Both rest on the names of GL: a name is      *)
(* given once, so that no later load writes over a program or a pipeline,  *)
(* and a location found once stays the location of its uniform.            *)
(***************************************************************************)
EXTENDS ShaderObjects, SequenceTheorems, FiniteSetTheorems, WellFoundedInduction, TLAPS

Texts == [Stage -> Source \cup {Empty}]

ShaderType ==
  [texts : Texts, handles : UNION {[0..n -> Nat] : n \in Nat}, alive : BOOLEAN,
   index : [Stage -> Nat]]

ProgramType ==
  [text : Source, values : UNION {[0..n -> Nat \cup Values] : n \in Int}]

MaterialType ==
  [id : Nat, value : Values, registered : BOOLEAN, atId : Int, atData : Int]

TypeOK ==
  /\ status \in {"loading", "drawing", "down", "failed"}
  /\ shaders \in Seq(ShaderType)
  /\ pipelineNames \in Nat /\ objectNames \in Nat
  /\ DOMAIN pipelines \subseteq 1..pipelineNames
  /\ DOMAIN programs \subseteq 1..objectNames
  /\ programs \in [DOMAIN programs -> ProgramType]
  /\ materials \in Seq(MaterialType)
  /\ drawn \in 0..Len(materials) /\ sent \subseteq Registered

(* the getters of shader s name the programs of its texts *)
Finds(s, made) ==
  \A i \in Stage :
    IF s.texts[i] = Empty THEN Get(s, i) = 0
    ELSE Get(s, i) \in DOMAIN made /\ made[Get(s, i)].text = s.texts[i]

(* no program belongs to two stages *)
Apart(shs) ==
  \A k, other \in DOMAIN shs : \A i, j \in Stage :
    Get(shs[k], i) # 0 /\ Get(shs[k], i) = Get(shs[other], j) => other = k /\ j = i

(* the pipeline of shader s runs what its getters name *)
Runs(s, pipes) ==
  /\ s.handles[0] \in DOMAIN pipes
  /\ \A i \in Stage : pipes[s.handles[0]][i] = IF s.texts[i] \in Broken THEN 0 ELSE Get(s, i)

NamesInv ==
  /\ \A k \in DOMAIN shaders : Finds(shaders[k], programs)
  /\ Apart(shaders)
  /\ status \in {"loading", "drawing"} => \A k \in DOMAIN shaders : Runs(shaders[k], pipelines)

(* the location of a uniform in program p of "made" *)
Loc(made, p, name) ==
  LET at == IF p \in DOMAIN made
            THEN {l \in DOMAIN made[p].values : Declared[made[p].text][l + 1] = name}
            ELSE {}
  IN IF at = {} THEN -1 ELSE Min(at)

IdAt == Loc(programs, FS(1), MaterialId)
DataAt(m) == Loc(programs, FS(2), MaterialData(materials[m].id))

(* the ids of registered materials are their own *)
IdsInv ==
  /\ materials # << >> \/ status = "drawing" => Len(shaders) >= 2
  /\ \A m \in Registered : materials[m].id < Cardinality(Registered)
  /\ \A m, o \in Registered : materials[m].id = materials[o].id => m = o

(* a location that is kept is that of the uniform *)
KeptInv ==
  /\ \A m \in DOMAIN materials : materials[m].atId \in {-1, IdAt}
  /\ \A m \in Registered : materials[m].atData \in {-1, DataAt(m)}

(* what was bound is there *)
ShownInv ==
  /\ drawn # 0 /\ IdAt >= 0 => programs[FS(1)].values[IdAt] = materials[drawn].id
  /\ \A m \in sent : DataAt(m) >= 0 => programs[FS(2)].values[DataAt(m)] = materials[m].value

MaterialsInv == IdsInv /\ KeptInv /\ ShownInv

IInv == TypeOK /\ NamesInv /\ MaterialsInv

-----------------------------------------------------------------------------
(* Where the programs of a shader lie *)

LEMMA CountBelow ==
  ASSUME NEW texts
  PROVE  LET G == Given(texts)
             one(i) == IF i \in G THEN 1 ELSE 0
         IN /\ Cardinality({j \in G : j <= 1}) = one(1)
            /\ Cardinality({j \in G : j <= 2}) = one(1) + one(2)
            /\ Cardinality({j \in G : j <= 3}) = one(1) + one(2) + one(3)
            /\ Cardinality(G) = one(1) + one(2) + one(3)
  <1> DEFINE G == Given(texts)
             one(i) == IF i \in G THEN 1 ELSE 0
             Up(i) == {j \in G : j <= i}
  <1>1. \A x \in G : x = 1 \/ x = 2 \/ x = 3
    BY DEF Given, Stage
  <1> HIDE DEF G
  <1>2. (1 \in G => Up(1) = {} \cup {1}) /\ (1 \notin G => Up(1) = {})
    <2>1. \A x : x \in Up(1) <=> x = 1 /\ 1 \in G
      BY <1>1
    <2> HIDE DEF Up
    <2> QED BY <2>1
  <1>3. (2 \in G => Up(2) = Up(1) \cup {2}) /\ (2 \notin G => Up(2) = Up(1))
    <2>1. \A x : x \in Up(2) <=> x \in Up(1) \/ (x = 2 /\ 2 \in G)
      BY <1>1
    <2> HIDE DEF Up
    <2> QED BY <2>1
  <1>4. (3 \in G => Up(3) = Up(2) \cup {3}) /\ (3 \notin G => Up(3) = Up(2))
    <2>1. \A x : x \in Up(3) <=> x \in Up(2) \/ (x = 3 /\ 3 \in G)
      BY <1>1
    <2> HIDE DEF Up
    <2> QED BY <2>1
  <1>5. G = Up(3)
    <2>1. \A x : x \in G <=> x \in Up(3)
      BY <1>1
    <2> HIDE DEF Up
    <2> QED BY <2>1
  <1>6. 2 \notin Up(1) /\ 3 \notin Up(2)
    OBVIOUS
  <1>7. IsFiniteSet(Up(1)) /\ Cardinality(Up(1)) = one(1)
    <2> HIDE DEF Up
    <2> QED BY <1>2, FS_EmptySet, FS_AddElement
  <1>8. IsFiniteSet(Up(2)) /\ Cardinality(Up(2)) = one(1) + one(2)
    <2> HIDE DEF Up
    <2> QED BY <1>3, <1>6, <1>7, FS_AddElement
  <1>9. Cardinality(Up(3)) = one(1) + one(2) + one(3)
    <2> HIDE DEF Up
    <2> QED BY <1>4, <1>6, <1>8, FS_AddElement
  <1> QED BY <1>5, <1>7, <1>8, <1>9 DEF G

(* they lie packed: the given stages take the places 1..n, in order *)
LEMMA Packed ==
  ASSUME NEW texts
  PROVE  LET n == Cardinality(Given(texts)) IN
         /\ n \in 0..3
         /\ \A i \in Stage : /\ texts[i] = Empty => Index(texts, i) = 0
                             /\ texts[i] # Empty => Index(texts, i) \in 1..n
         /\ \A i, j \in Given(texts) : Index(texts, i) = Index(texts, j) => i = j
         /\ \A k \in 1..n : \E i \in Given(texts) : Index(texts, i) = k
  <1> DEFINE G == Given(texts)
             n == Cardinality(G)
             one(i) == IF i \in G THEN 1 ELSE 0
             up(i) == Cardinality({j \in G : j <= i})
  <1>1. up(1) = one(1) /\ up(2) = one(1) + one(2) /\ up(3) = one(1) + one(2) + one(3)
          /\ n = one(1) + one(2) + one(3)
    BY CountBelow
  <1>2. \A i \in Stage : Index(texts, i) = IF i \in G THEN up(i) ELSE 0
    BY DEF Index, Given
  <1>3. \A i \in Stage : i \in G <=> texts[i] # Empty
    BY DEF Given
  <1>4. G \subseteq Stage /\ Stage = {1, 2, 3}
    BY DEF Given, Stage
  <1>5. n \in 0..3
    BY <1>1
  <1>6. \A i \in Stage : i \in G => up(i) \in 1..n
    <2> HIDE DEF up, n, G
    <2> QED BY <1>1, <1>4
  <1>7. \A i, j \in G : up(i) = up(j) => i = j
    <2> HIDE DEF up, n, G
    <2> QED BY <1>1, <1>4
  <1>8. \A k \in 1..n : \E i \in G : up(i) = k
    <2> HIDE DEF up, n, G
    <2>1. n = 0 \/ n = 1 \/ n = 2 \/ n = 3
      BY <1>5
    <2> QED BY <1>1, <1>4, <2>1
  <1> HIDE DEF up, n, G
  <1> QED BY <1>2, <1>3, <1>4, <1>5, <1>6, <1>7, <1>8 DEF n, G

-----------------------------------------------------------------------------
(* Loading a shader *)

(* the names a load takes, and the programs it makes *)
LEMMA Made ==
  ASSUME TypeOK, NEW texts \in Texts
  PROVE  LET n == Cardinality(Given(texts))
             h == Handles(texts)
         IN /\ n \in 0..3
            /\ h \in [0..n -> Nat] /\ h[0] = pipelineNames + 1
            /\ \A k \in 1..n : h[k] = objectNames + n + k
            /\ DOMAIN Linked(texts) \subseteq (objectNames + n + 1)..(objectNames + 2 * n)
            /\ Linked(texts) \in [DOMAIN Linked(texts) -> ProgramType]
            /\ \A i \in Given(texts) : /\ h[Index(texts, i)] \in DOMAIN Linked(texts)
                                       /\ Linked(texts)[h[Index(texts, i)]].text = texts[i]
  <1> DEFINE n == Cardinality(Given(texts))
             h == Handles(texts)
             at(i) == Index(texts, i)
             chosen(p) == CHOOSE i \in Given(texts) :
                            h[Cardinality({j \in Given(texts) : j <= i})] = p
             uniforms(i) == IF texts[i] \in Broken THEN 0 ELSE Len(Declared[texts[i]])
             program(i) == [text |-> texts[i], values |-> [l \in 0..(uniforms(i) - 1) |-> 0]]
  <1>1. /\ n \in 0..3
        /\ \A i \in Given(texts) : at(i) \in 1..n
        /\ \A i, j \in Given(texts) : at(i) = at(j) => i = j
        /\ \A k \in 1..n : \E i \in Given(texts) : at(i) = k
    BY Packed DEF Given
  <1>2. pipelineNames \in Nat /\ objectNames \in Nat
    BY DEF TypeOK
  <1>3. h = [k \in 0..n |-> IF k = 0 THEN pipelineNames + 1 ELSE objectNames + n + k]
    BY DEF Handles
  <1>4. \A i \in Given(texts) : at(i) = Cardinality({j \in Given(texts) : j <= i})
    BY DEF Index, Given
  <1>5. Linked(texts) = [p \in {h[k] : k \in 1..n} |-> program(chosen(p))]
    BY DEF Linked
  <1> HIDE DEF n, h, at
  <1>6. h \in [0..n -> Nat] /\ h[0] = pipelineNames + 1
    BY <1>1, <1>2, <1>3
  <1>7. \A k \in 1..n : h[k] = objectNames + n + k
    BY <1>1, <1>2, <1>3
  <1>8. \A i, j \in Given(texts) : h[at(i)] = h[at(j)] => i = j
    BY <1>1, <1>2, <1>7
  <1>9. ASSUME NEW i \in Given(texts) PROVE chosen(h[at(i)]) = i
    <2>1. h[Cardinality({j \in Given(texts) : j <= i})] = h[at(i)]
      BY <1>4
    <2>2. /\ chosen(h[at(i)]) \in Given(texts)
          /\ h[Cardinality({j \in Given(texts) : j <= chosen(h[at(i)])})] = h[at(i)]
      BY <2>1
    <2> HIDE DEF chosen
    <2> QED BY <1>4, <1>8, <2>2
  <1> HIDE DEF chosen
  <1>10. \A i \in Given(texts) : program(i) \in ProgramType
    <2> SUFFICES ASSUME NEW i \in Given(texts) PROVE program(i) \in ProgramType
      OBVIOUS
    <2>1. texts[i] \in Source
      BY DEF Given, Texts
    <2>2. Declared[texts[i]] \in Seq(STRING \X Nat)
      BY <2>1, DeclaredAssumption
    <2>3. uniforms(i) - 1 \in Int
      BY <2>2, LenProperties
    <2> HIDE DEF uniforms
    <2>4. [l \in 0..(uniforms(i) - 1) |-> 0] \in [0..(uniforms(i) - 1) -> Nat \cup Values]
      OBVIOUS
    <2>5. [l \in 0..(uniforms(i) - 1) |-> 0]
             \in UNION {[0..k -> Nat \cup Values] : k \in Int}
      BY <2>3, <2>4
    <2> QED BY <2>1, <2>5 DEF ProgramType
  <1>11. \A i \in Given(texts) : program(i).text = texts[i]
    OBVIOUS
  <1> HIDE DEF program
  <1>12. DOMAIN Linked(texts) = {h[k] : k \in 1..n}
    BY <1>5
  <1>13. DOMAIN Linked(texts) \subseteq (objectNames + n + 1)..(objectNames + 2 * n)
    BY <1>1, <1>2, <1>7, <1>12
  <1>14. ASSUME NEW i \in Given(texts)
         PROVE  h[at(i)] \in DOMAIN Linked(texts) /\ Linked(texts)[h[at(i)]] = program(i)
    BY <1>1, <1>5, <1>9, <1>12
  <1>15. \A p \in DOMAIN Linked(texts) : \E i \in Given(texts) : h[at(i)] = p
    BY <1>1, <1>12
  <1>16. Linked(texts) \in [DOMAIN Linked(texts) -> ProgramType]
    <2>1. \A p \in DOMAIN Linked(texts) : Linked(texts)[p] \in ProgramType
      BY <1>10, <1>14, <1>15
    <2>2. Linked(texts) = [p \in DOMAIN Linked(texts) |-> Linked(texts)[p]]
      BY <1>5
    <2> QED BY <2>1, <2>2
  <1> QED BY <1>1, <1>6, <1>7, <1>11, <1>13, <1>14, <1>16 DEF n, h, at

NewShader(texts) ==
  [texts |-> texts, handles |-> Handles(texts), alive |-> TRUE,
   index |-> [i \in Stage |-> Index(texts, i)]]

LEMMA NewGet ==
  ASSUME TypeOK, NEW texts \in Texts
  PROVE  LET n == Cardinality(Given(texts))
             s == NewShader(texts)
         IN /\ s \in ShaderType
            /\ \A i \in Stage :
                 IF texts[i] = Empty THEN Get(s, i) = 0
                 ELSE /\ Index(texts, i) \in 1..n
                      /\ Get(s, i) = Handles(texts)[Index(texts, i)]
                      /\ Get(s, i) = objectNames + n + Index(texts, i)
  <1> DEFINE n == Cardinality(Given(texts))
             h == Handles(texts)
             s == NewShader(texts)
  <1>1. n \in 0..3 /\ h \in [0..n -> Nat] /\ \A k \in 1..n : h[k] = objectNames + n + k
    BY Made
  <1>2. \A i \in Stage : /\ texts[i] = Empty => Index(texts, i) = 0
                         /\ texts[i] # Empty => Index(texts, i) \in 1..n
    BY Packed
  <1>3. /\ s.texts = texts /\ s.handles = h /\ s.alive = TRUE
        /\ s.index = [i \in Stage |-> Index(texts, i)]
        /\ s = [texts |-> s.texts, handles |-> s.handles, alive |-> s.alive, index |-> s.index]
    BY DEF NewShader
  <1> HIDE DEF n, h, s
  <1>4. s.index \in [Stage -> Nat]
    BY <1>1, <1>2, <1>3
  <1>5. s.handles \in UNION {[0..k -> Nat] : k \in Nat}
    BY <1>1, <1>3
  <1>6. s \in ShaderType
    BY <1>3, <1>4, <1>5 DEF ShaderType
  <1>7. DOMAIN s.handles \ {0} = 1..n
    BY <1>1, <1>3
  <1>8. ASSUME NEW i \in Stage
        PROVE  IF texts[i] = Empty THEN Get(s, i) = 0
               ELSE /\ Index(texts, i) \in 1..n /\ Get(s, i) = h[Index(texts, i)]
                    /\ Get(s, i) = objectNames + n + Index(texts, i)
    <2>1. s.index[i] = Index(texts, i)
      BY <1>3
    <2>2. CASE texts[i] = Empty
      BY <1>1, <1>2, <1>7, <2>1, <2>2 DEF Get
    <2>3. CASE texts[i] # Empty
      BY <1>1, <1>2, <1>3, <1>7, <2>1, <2>3 DEF Get
    <2> QED BY <2>2, <2>3
  <1> QED BY <1>6, <1>8 DEF n, h, s

(* one map of names after another, their names apart *)
LEMMA PlusFacts ==
  ASSUME NEW f, NEW g, DOMAIN f \cap DOMAIN g = {}
  PROVE  /\ DOMAIN Plus(f, g) = DOMAIN f \cup DOMAIN g
         /\ \A x \in DOMAIN f : Plus(f, g)[x] = f[x]
         /\ \A x \in DOMAIN g : Plus(f, g)[x] = g[x]
  BY DEF Plus

LEMMA PlusType ==
  ASSUME NEW S, NEW f, NEW g, f \in [DOMAIN f -> S], g \in [DOMAIN g -> S]
  PROVE  Plus(f, g) \in [DOMAIN Plus(f, g) -> S]
  BY DEF Plus

LEMMA LoadGl ==
  ASSUME TypeOK, NEW texts \in Loads, Load(texts)
  PROVE  LET s == NewShader(texts) IN
         /\ texts \in Texts
         /\ shaders' = Append(shaders, s)
         /\ objectNames' \in Nat /\ objectNames <= objectNames'
         /\ DOMAIN programs' \subseteq 1..objectNames'
         /\ programs' \in [DOMAIN programs' -> ProgramType]
         /\ DOMAIN programs \subseteq DOMAIN programs'
         /\ \A p \in DOMAIN programs : programs'[p] = programs[p]
         /\ pipelineNames' \in Nat
         /\ DOMAIN pipelines' \subseteq 1..pipelineNames'
         /\ DOMAIN pipelines \subseteq DOMAIN pipelines'
         /\ \A p \in DOMAIN pipelines : pipelines'[p] = pipelines[p]
         /\ Finds(s, programs')
         /\ Runs(s, pipelines')
  <1> DEFINE n == Cardinality(Given(texts))
             h == Handles(texts)
             s == NewShader(texts)
             made == Linked(texts)
             handle(i) == IF Index(texts, i) \in 1..n THEN h[Index(texts, i)] ELSE 0
             pipe == [p \in {h[0]} |-> [i \in Stage |-> Used(programs', handle(i))]]
  <1>1. texts \in Texts /\ \A i \in Stage : texts[i] # Missing
    BY SourceAssumption DEF Load, Texts
  <1>2. /\ n \in 0..3 /\ h \in [0..n -> Nat] /\ h[0] = pipelineNames + 1
        /\ \A k \in 1..n : h[k] = objectNames + n + k
        /\ DOMAIN made \subseteq (objectNames + n + 1)..(objectNames + 2 * n)
        /\ made \in [DOMAIN made -> ProgramType]
        /\ \A i \in Given(texts) : /\ h[Index(texts, i)] \in DOMAIN made
                                   /\ made[h[Index(texts, i)]].text = texts[i]
    BY <1>1, Made
  <1>3. \A i \in Stage :
          IF texts[i] = Empty THEN Get(s, i) = 0
          ELSE Index(texts, i) \in 1..n /\ Get(s, i) = h[Index(texts, i)]
    BY <1>1, NewGet
  <1>4. \A i \in Stage : texts[i] = Empty => Index(texts, i) = 0
    BY Packed
  <1>5. /\ shaders' = Append(shaders, s) /\ programs' = Plus(programs, made)
        /\ pipelines' = Plus(pipelines, pipe)
        /\ pipelineNames' = pipelineNames + n + 1 /\ objectNames' = objectNames + 2 * n
    BY DEF Load, NewShader
  <1>6. s.texts = texts /\ s.handles = h
    BY DEF NewShader
  <1>7. /\ pipelineNames \in Nat /\ objectNames \in Nat
        /\ DOMAIN pipelines \subseteq 1..pipelineNames
        /\ DOMAIN programs \subseteq 1..objectNames
        /\ programs \in [DOMAIN programs -> ProgramType]
    BY DEF TypeOK
  <1>8. \A i \in Stage : i \in Given(texts) <=> texts[i] # Empty
    BY DEF Given
  <1>9. \A i \in Stage : texts[i] \in Broken => texts[i] # Empty
    BY SourceAssumption
  <1>10. DOMAIN pipe = {h[0]} /\ pipe[h[0]] = [i \in Stage |-> Used(programs', handle(i))]
    OBVIOUS
  <1>11. \A i \in Stage : texts[i] = Empty => handle(i) = 0
    BY <1>2, <1>4
  <1>12. \A i \in Stage : texts[i] # Empty => handle(i) = h[Index(texts, i)]
    BY <1>3
  <1> HIDE DEF n, h, s, made, pipe, handle
  <1>13. DOMAIN programs \cap DOMAIN made = {} /\ DOMAIN pipelines \cap DOMAIN pipe = {}
    BY <1>2, <1>7, <1>10
  <1>14. /\ DOMAIN programs' = DOMAIN programs \cup DOMAIN made
         /\ \A x \in DOMAIN programs : programs'[x] = programs[x]
         /\ \A x \in DOMAIN made : programs'[x] = made[x]
         /\ programs' \in [DOMAIN programs' -> ProgramType]
    <2>1. /\ DOMAIN Plus(programs, made) = DOMAIN programs \cup DOMAIN made
          /\ \A x \in DOMAIN programs : Plus(programs, made)[x] = programs[x]
          /\ \A x \in DOMAIN made : Plus(programs, made)[x] = made[x]
      BY <1>13, PlusFacts
    <2>2. Plus(programs, made) \in [DOMAIN Plus(programs, made) -> ProgramType]
      BY <1>2, <1>7, PlusType
    <2> QED BY <1>5, <2>1, <2>2
  <1>15. /\ DOMAIN pipelines' = DOMAIN pipelines \cup DOMAIN pipe
         /\ \A x \in DOMAIN pipelines : pipelines'[x] = pipelines[x]
         /\ \A x \in DOMAIN pipe : pipelines'[x] = pipe[x]
    <2>1. /\ DOMAIN Plus(pipelines, pipe) = DOMAIN pipelines \cup DOMAIN pipe
          /\ \A x \in DOMAIN pipelines : Plus(pipelines, pipe)[x] = pipelines[x]
          /\ \A x \in DOMAIN pipe : Plus(pipelines, pipe)[x] = pipe[x]
      BY <1>13, PlusFacts
    <2> QED BY <1>5, <2>1
  <1>16. DOMAIN programs' \subseteq 1..objectNames'
    <2>1. DOMAIN made \subseteq 1..objectNames'
      BY <1>2, <1>5, <1>7
    <2>2. DOMAIN programs \subseteq 1..objectNames'
      BY <1>2, <1>5, <1>7
    <2> QED BY <1>14, <2>1, <2>2
  <1>17. DOMAIN pipelines' \subseteq 1..pipelineNames'
    BY <1>2, <1>5, <1>7, <1>10, <1>15
  <1>18. Finds(s, programs')
    <2> SUFFICES ASSUME NEW i \in Stage, texts[i] # Empty
                 PROVE  Get(s, i) \in DOMAIN programs' /\ programs'[Get(s, i)].text = texts[i]
      BY <1>3, <1>6 DEF Finds
    <2> QED BY <1>2, <1>3, <1>8, <1>14
  <1>19. Runs(s, pipelines')
    <2>1. s.handles[0] \in DOMAIN pipelines' /\ pipelines'[s.handles[0]] = pipe[h[0]]
      BY <1>6, <1>10, <1>15
    <2>2. ASSUME NEW i \in Stage
          PROVE  pipe[h[0]][i] = IF texts[i] \in Broken THEN 0 ELSE Get(s, i)
      <3>1. pipe[h[0]][i] = Used(programs', handle(i))
        BY <1>10
      <3>2. CASE texts[i] = Empty
        <4>1. handle(i) = 0 /\ 0 \notin DOMAIN programs'
          BY <1>11, <1>16, <3>2
        <4>2. Used(programs', 0) = 0
          BY <4>1 DEF Used
        <4> QED BY <1>3, <1>9, <3>1, <3>2, <4>1, <4>2
      <3>3. CASE texts[i] # Empty
        <4>1. handle(i) = Get(s, i)
          BY <1>3, <1>12, <3>3
        <4>2. Get(s, i) \in DOMAIN programs' /\ programs'[Get(s, i)].text = texts[i]
          BY <1>6, <1>18, <3>3 DEF Finds
        <4> QED BY <3>1, <4>1, <4>2 DEF Used
      <3> QED BY <3>2, <3>3
    <2> QED BY <1>6, <2>1, <2>2 DEF Runs
  <1>20. /\ objectNames' \in Nat /\ objectNames <= objectNames' /\ pipelineNames' \in Nat
    BY <1>2, <1>5, <1>7
  <1> QED BY <1>1, <1>5, <1>14, <1>15, <1>16, <1>17, <1>18, <1>19, <1>20 DEF s

-----------------------------------------------------------------------------
(* The shaders a step leaves as they are *)

LEMMA ShaderFacts ==
  ASSUME TypeOK
  PROVE  /\ Len(shaders) \in Nat /\ DOMAIN shaders = 1..Len(shaders)
         /\ \A k \in DOMAIN shaders : shaders[k] \in ShaderType
  BY LenProperties, ElementOfSeq DEF TypeOK

LEMMA SameGet ==
  ASSUME NEW s, NEW t, s.handles = t.handles, s.index = t.index
  PROVE  \A i \in Stage : Get(s, i) = Get(t, i)
  BY DEF Get

(* programs that grow, or change the values of uniforms only *)
SameTexts(made, more) ==
  /\ DOMAIN made \subseteq DOMAIN more
  /\ \A p \in DOMAIN made : /\ more[p].text = made[p].text
                             /\ DOMAIN more[p].values = DOMAIN made[p].values

SameShader(s, t) == s.texts = t.texts /\ s.handles = t.handles /\ s.index = t.index

LEMMA FindsKept ==
  ASSUME NEW s, NEW t, NEW made, NEW more, SameShader(s, t), SameTexts(made, more),
         Finds(s, made)
  PROVE  Finds(t, more)
  <1>1. \A i \in Stage : Get(t, i) = Get(s, i) /\ t.texts[i] = s.texts[i]
    BY SameGet DEF SameShader
  <1> QED BY <1>1 DEF Finds, SameTexts

LEMMA RunsKept ==
  ASSUME NEW s, NEW t, NEW pipes, NEW more, SameShader(s, t), Runs(s, pipes),
         DOMAIN pipes \subseteq DOMAIN more, \A p \in DOMAIN pipes : more[p] = pipes[p]
  PROVE  Runs(t, more)
  <1>1. \A i \in Stage : Get(t, i) = Get(s, i) /\ t.texts[i] = s.texts[i]
    BY SameGet DEF SameShader
  <1>2. t.handles = s.handles
    BY DEF SameShader
  <1> QED BY <1>1, <1>2 DEF Runs

(* a step other than Load *)
LEMMA NamesKept ==
  ASSUME NamesInv, DOMAIN shaders' = DOMAIN shaders,
         \A k \in DOMAIN shaders : SameShader(shaders[k], shaders'[k]),
         SameTexts(programs, programs'),
         status' \in {"loading", "drawing"}
           => status \in {"loading", "drawing"} /\ pipelines' = pipelines
  PROVE  NamesInv'
  <1>1. \A k \in DOMAIN shaders : Finds(shaders'[k], programs')
    BY FindsKept DEF NamesInv
  <1>2. \A k \in DOMAIN shaders : \A i \in Stage : Get(shaders'[k], i) = Get(shaders[k], i)
    BY SameGet DEF SameShader
  <1>3. Apart(shaders')
    BY <1>2 DEF NamesInv, Apart
  <1>4. status' \in {"loading", "drawing"} =>
          \A k \in DOMAIN shaders : Runs(shaders'[k], pipelines')
    BY RunsKept DEF NamesInv
  <1> QED BY <1>1, <1>3, <1>4 DEF NamesInv

LEMMA LoadNames ==
  ASSUME TypeOK, NamesInv, NEW texts \in Loads, Load(texts)
  PROVE  NamesInv'
  <1> DEFINE s == NewShader(texts)
             n == Len(shaders)
  <1>1. /\ shaders' = Append(shaders, s) /\ texts \in Texts
        /\ DOMAIN programs \subseteq DOMAIN programs'
        /\ \A p \in DOMAIN programs : programs'[p] = programs[p]
        /\ DOMAIN pipelines \subseteq DOMAIN pipelines'
        /\ \A p \in DOMAIN pipelines : pipelines'[p] = pipelines[p]
        /\ Finds(s, programs') /\ Runs(s, pipelines')
    BY LoadGl
  <1>2. n \in Nat /\ DOMAIN shaders = 1..n
    BY ShaderFacts
  <1>3. \A i \in Stage :
          IF texts[i] = Empty THEN Get(s, i) = 0
          ELSE Get(s, i) = objectNames + Cardinality(Given(texts)) + Index(texts, i)
    BY <1>1, NewGet
  <1>4. /\ Cardinality(Given(texts)) \in Nat
        /\ \A i \in Stage : texts[i] # Empty => Index(texts, i) \in Nat \ {0}
        /\ \A i, j \in Given(texts) : Index(texts, i) = Index(texts, j) => i = j
    BY Packed
  <1>5. \A i \in Stage : i \in Given(texts) <=> texts[i] # Empty
    BY DEF Given
  <1>6. objectNames \in Nat /\ DOMAIN programs \subseteq 1..objectNames
    BY DEF TypeOK
  <1> HIDE DEF s, n
  <1>7. /\ DOMAIN shaders' = 1..(n + 1) /\ shaders'[n + 1] = s
        /\ \A k \in 1..n : shaders'[k] = shaders[k]
    BY <1>1, <1>2, AppendProperties DEF TypeOK, n
  <1>8. \A k \in DOMAIN shaders' : k \in DOMAIN shaders \/ k = n + 1
    BY <1>2, <1>7
  <1>9. SameTexts(programs, programs')
    BY <1>1 DEF SameTexts
  <1>10. \A k \in DOMAIN shaders : SameShader(shaders[k], shaders'[k])
    BY <1>2, <1>7 DEF SameShader
  <1>11. \A k \in DOMAIN shaders' : Finds(shaders'[k], programs')
    BY <1>1, <1>7, <1>8, <1>9, <1>10, FindsKept DEF NamesInv
  <1>12. \A k \in DOMAIN shaders' : Runs(shaders'[k], pipelines')
    <2>1. \A k \in DOMAIN shaders : Runs(shaders[k], pipelines)
      BY DEF Load, NamesInv
    <2> QED BY <1>1, <1>7, <1>8, <1>10, <2>1, RunsKept
  <1>13. \A k \in DOMAIN shaders, i \in Stage : Get(shaders[k], i) \in 0..objectNames
    <2> SUFFICES ASSUME NEW k \in DOMAIN shaders, NEW i \in Stage
                 PROVE  Get(shaders[k], i) \in 0..objectNames
      OBVIOUS
    <2>1. Get(shaders[k], i) = 0 \/ Get(shaders[k], i) \in DOMAIN programs
      BY DEF NamesInv, Finds
    <2> QED BY <1>6, <2>1
  <1>14. \A i \in Stage : Get(s, i) # 0 =>
           /\ Get(s, i) \in Nat /\ Get(s, i) > objectNames
           /\ \A j \in Stage : Get(s, i) = Get(s, j) => i = j
    BY <1>3, <1>4, <1>5, <1>6
  <1>15. Apart(shaders')
    <2> SUFFICES ASSUME NEW k \in DOMAIN shaders', NEW other \in DOMAIN shaders',
                        NEW i \in Stage, NEW j \in Stage, Get(shaders'[k], i) # 0,
                        Get(shaders'[k], i) = Get(shaders'[other], j)
                 PROVE  other = k /\ j = i
      BY DEF Apart
    <2>1. CASE k \in DOMAIN shaders /\ other \in DOMAIN shaders
      BY <1>2, <1>7, <2>1 DEF NamesInv, Apart
    <2>2. CASE k = n + 1 /\ other = n + 1
      BY <1>7, <1>14, <2>2
    <2>3. CASE k \in DOMAIN shaders /\ other = n + 1
      <3>1. Get(shaders'[k], i) \in 0..objectNames /\ Get(shaders'[other], j) = Get(s, j)
        BY <1>2, <1>7, <1>13, <2>3
      <3> QED BY <1>6, <1>14, <3>1
    <2>4. CASE k = n + 1 /\ other \in DOMAIN shaders
      <3>1. Get(shaders'[other], j) \in 0..objectNames /\ Get(shaders'[k], i) = Get(s, i)
        BY <1>2, <1>7, <1>13, <2>4
      <3> QED BY <1>6, <1>14, <3>1
    <2> QED BY <1>8, <2>1, <2>2, <2>3, <2>4
  <1> QED BY <1>11, <1>12, <1>15 DEF NamesInv

-----------------------------------------------------------------------------
(* Locations *)

LEMMA HasFirst ==
  ASSUME NEW K \in SUBSET Nat, K # {}
  PROVE  Min(K) \in K
  <1> DEFINE Less == OpToRel(<, Nat)
  <1>1. IsWellFoundedOn(Less, Nat)
    BY NatLessThanWellFounded
  <1>2. \A a, b \in Nat : <<a, b>> \in Less <=> a < b
    BY DEF OpToRel
  <1> HIDE DEF Less
  <1>3. PICK m \in K : \A j \in K : <<j, m>> \notin Less
    BY <1>1, WFMin
  <1>4. \A j \in K : m <= j
    <2> SUFFICES ASSUME NEW j \in K PROVE m <= j
      OBVIOUS
    <2>1. j \in Nat /\ m \in Nat /\ ~(j < m)
      BY <1>2, <1>3
    <2> QED BY <2>1
  <1> QED BY <1>4 DEF Min

LEMMA LocFacts ==
  ASSUME NEW made, made \in [DOMAIN made -> ProgramType], NEW p, NEW name
  PROVE  /\ Loc(made, p, name) \in Nat \cup {-1}
         /\ Loc(made, p, name) >= 0 =>
              /\ p \in DOMAIN made /\ Loc(made, p, name) \in DOMAIN made[p].values
              /\ Declared[made[p].text][Loc(made, p, name) + 1] = name
         /\ p \in DOMAIN made => \A l \in DOMAIN made[p].values : l \in Nat
  <1> DEFINE at == IF p \in DOMAIN made
                   THEN {l \in DOMAIN made[p].values : Declared[made[p].text][l + 1] = name}
                   ELSE {}
  <1>1. Loc(made, p, name) = IF at = {} THEN -1 ELSE Min(at)
    BY DEF Loc
  <1>2. ASSUME p \in DOMAIN made PROVE DOMAIN made[p].values \subseteq Nat
    <2>1. made[p] \in ProgramType
      BY <1>2
    <2>2. PICK n \in Int : made[p].values \in [0..n -> Nat \cup Values]
      BY <2>1 DEF ProgramType
    <2> QED BY <2>2
  <1>3. at \in SUBSET Nat
    BY <1>2
  <1>4. CASE at = {}
    BY <1>1, <1>2, <1>4
  <1>5. CASE at # {}
    <2>1. Loc(made, p, name) \in at
      BY <1>1, <1>3, <1>5, HasFirst
    <2> QED BY <1>2, <1>3, <2>1
  <1> QED BY <1>4, <1>5

LEMMA LocSame ==
  ASSUME NEW made, NEW more, NEW p, NEW name, SameTexts(made, more),
         p \in DOMAIN more => p \in DOMAIN made
  PROVE  Loc(more, p, name) = Loc(made, p, name)
  <1>1. CASE p \in DOMAIN made
    <2>1. /\ p \in DOMAIN more /\ more[p].text = made[p].text
          /\ DOMAIN more[p].values = DOMAIN made[p].values
      BY <1>1 DEF SameTexts
    <2> QED BY <1>1, <2>1 DEF Loc
  <1>2. CASE p \notin DOMAIN made
    BY <1>2 DEF Loc
  <1> QED BY <1>1, <1>2

LEMMA LocIs ==
  ASSUME NEW p, NEW name
  PROVE  GetUniformLocation(p, name) = Loc(programs, p, name)
  BY DEF GetUniformLocation, Loc

(* the programs of the first two shaders, once they are there *)
LEMMA PassPrograms ==
  ASSUME TypeOK, NamesInv, Len(shaders) >= 2
  PROVE  /\ FS(1) \in DOMAIN programs \cup {0} /\ FS(2) \in DOMAIN programs \cup {0}
         /\ 0 \notin DOMAIN programs
         /\ FS(1) \in DOMAIN programs => FS(1) # FS(2)
  <1>1. 1 \in DOMAIN shaders /\ 2 \in DOMAIN shaders /\ 3 \in Stage
    BY ShaderFacts DEF Stage
  <1>2. 0 \notin DOMAIN programs
    BY DEF TypeOK
  <1>3. /\ Get(shaders[1], 3) \in DOMAIN programs \cup {0}
        /\ Get(shaders[2], 3) \in DOMAIN programs \cup {0}
    BY <1>1 DEF NamesInv, Finds
  <1>4. Get(shaders[1], 3) # 0 => Get(shaders[1], 3) # Get(shaders[2], 3)
    BY <1>1 DEF NamesInv, Apart
  <1> QED BY <1>2, <1>3, <1>4 DEF FS

LEMMA RegisteredFacts ==
  ASSUME TypeOK
  PROVE  /\ Len(materials) \in Nat /\ DOMAIN materials = 1..Len(materials)
         /\ \A m \in DOMAIN materials : materials[m] \in MaterialType
         /\ Registered \subseteq DOMAIN materials
         /\ IsFiniteSet(Registered) /\ Cardinality(Registered) \in Nat
  <1>1. /\ Len(materials) \in Nat /\ DOMAIN materials = 1..Len(materials)
        /\ \A m \in DOMAIN materials : materials[m] \in MaterialType
    BY LenProperties, ElementOfSeq DEF TypeOK
  <1>2. Registered \in SUBSET (1..Len(materials))
    BY <1>1 DEF Registered
  <1>3. IsFiniteSet(1..Len(materials))
    BY <1>1, FS_Interval
  <1>4. IsFiniteSet(Registered)
    BY <1>2, <1>3, FS_Subset
  <1> QED BY <1>1, <1>2, <1>4, FS_CardinalityType

-----------------------------------------------------------------------------
(* Steps that leave the materials as they are *)

LEMMA MaterialsKept ==
  ASSUME TypeOK, NamesInv, MaterialsInv,
         UNCHANGED <<materials, drawn, sent>>,
         status' = "drawing" => status = "drawing" \/ Len(shaders) >= 2,
         Len(shaders') \in Nat, Len(shaders') >= Len(shaders),
         \A k \in DOMAIN shaders : k \in DOMAIN shaders' /\ SameShader(shaders[k], shaders'[k]),
         DOMAIN programs \subseteq DOMAIN programs', 0 \notin DOMAIN programs',
         \A p \in DOMAIN programs : programs'[p] = programs[p]
  PROVE  MaterialsInv'
  <1>0. Len(shaders) \in Nat /\ DOMAIN shaders = 1..Len(shaders)
    BY ShaderFacts
  <1>1. Registered' = Registered
    BY DEF Registered
  <1>2. IdsInv'
    BY <1>0, <1>1 DEF MaterialsInv, IdsInv
  <1>3. CASE materials = << >>
    <2>1. Registered = {} /\ sent = {} /\ drawn = 0 /\ DOMAIN materials = {}
      BY <1>3, RegisteredFacts DEF TypeOK
    <2> QED BY <1>1, <1>2, <2>1 DEF MaterialsInv, KeptInv, ShownInv
  <1>4. CASE materials # << >>
    <2>1. Len(shaders) >= 2
      BY <1>4 DEF MaterialsInv, IdsInv
    <2>2. FS(1)' = FS(1) /\ FS(2)' = FS(2)
      <3>1. 1 \in DOMAIN shaders /\ 2 \in DOMAIN shaders /\ 3 \in Stage
        BY <1>0, <2>1 DEF Stage
      <3>2. SameShader(shaders[1], shaders'[1]) /\ SameShader(shaders[2], shaders'[2])
        BY <3>1
      <3>3. /\ Get(shaders'[1], 3) = Get(shaders[1], 3)
            /\ Get(shaders'[2], 3) = Get(shaders[2], 3)
        BY <3>1, <3>2, SameGet DEF SameShader
      <3> QED BY <3>3 DEF FS
    <2>3. /\ FS(1) \in DOMAIN programs \cup {0} /\ FS(2) \in DOMAIN programs \cup {0}
      BY <2>1, PassPrograms
    <2>4. SameTexts(programs, programs')
      BY DEF SameTexts
    <2>5. \A name : /\ Loc(programs', FS(1), name) = Loc(programs, FS(1), name)
                    /\ Loc(programs', FS(2), name) = Loc(programs, FS(2), name)
      BY <2>3, <2>4, LocSame
    <2>6. IdAt' = IdAt /\ \A m : DataAt(m)' = DataAt(m)
      BY <2>2, <2>5 DEF IdAt, DataAt
    <2>7. KeptInv'
      BY <1>1, <2>6 DEF MaterialsInv, KeptInv
    <2>8. IdAt >= 0 => FS(1) \in DOMAIN programs
      BY LocFacts DEF IdAt, TypeOK
    <2>9. \A m \in sent : DataAt(m) >= 0 => FS(2) \in DOMAIN programs
      BY LocFacts DEF DataAt, TypeOK
    <2>10. ShownInv'
      BY <2>2, <2>6, <2>8, <2>9 DEF MaterialsInv, ShownInv
    <2> QED BY <1>2, <2>7, <2>10 DEF MaterialsInv
  <1> QED BY <1>3, <1>4

LEMMA LoadKeeps ==
  ASSUME IInv, NEW texts \in Loads, Load(texts)
  PROVE  IInv'
  <1> DEFINE s == NewShader(texts)
  <1>1. TypeOK /\ NamesInv /\ MaterialsInv
    BY DEF IInv
  <1>2. /\ texts \in Texts /\ shaders' = Append(shaders, s)
        /\ objectNames' \in Nat /\ DOMAIN programs' \subseteq 1..objectNames'
        /\ programs' \in [DOMAIN programs' -> ProgramType]
        /\ DOMAIN programs \subseteq DOMAIN programs'
        /\ \A p \in DOMAIN programs : programs'[p] = programs[p]
        /\ pipelineNames' \in Nat /\ DOMAIN pipelines' \subseteq 1..pipelineNames'
    BY <1>1, LoadGl
  <1>3. s \in ShaderType
    BY <1>1, <1>2, NewGet
  <1>4. status = "loading" /\ UNCHANGED <<status, materials, drawn, sent>>
    BY DEF Load
  <1> HIDE DEF s
  <1>5. shaders' \in Seq(ShaderType) /\ Len(shaders') = Len(shaders) + 1
          /\ \A k \in 1..Len(shaders) : shaders'[k] = shaders[k]
    BY <1>1, <1>2, <1>3, AppendProperties DEF TypeOK
  <1>6. Len(shaders) \in Nat /\ DOMAIN shaders = 1..Len(shaders)
          /\ DOMAIN shaders' = 1..Len(shaders')
    BY <1>1, <1>5, ShaderFacts, LenProperties
  <1>7. TypeOK'
    <2>1. Registered' = Registered
      BY <1>4 DEF Registered
    <2> QED BY <1>1, <1>2, <1>4, <1>5, <2>1 DEF TypeOK
  <1>8. NamesInv'
    BY <1>1, LoadNames
  <1>9. MaterialsInv'
    <2>1. 0 \notin DOMAIN programs'
      BY <1>2
    <2>2. \A k \in DOMAIN shaders : k \in DOMAIN shaders' /\ SameShader(shaders[k], shaders'[k])
      BY <1>5, <1>6 DEF SameShader
    <2> QED BY <1>1, <1>2, <1>4, <1>5, <1>6, <2>1, <2>2, MaterialsKept
  <1> QED BY <1>7, <1>8, <1>9 DEF IInv

(* LoadFails, StartDrawing, Destroy and stuttering *)
LEMMA StatusKeeps ==
  ASSUME IInv, UNCHANGED <<programs, pipelineNames, objectNames, materials, drawn, sent>>,
         shaders' \in Seq(ShaderType), DOMAIN shaders' = DOMAIN shaders,
         Len(shaders') = Len(shaders),
         \A k \in DOMAIN shaders : SameShader(shaders[k], shaders'[k]),
         DOMAIN pipelines' \subseteq DOMAIN pipelines,
         status' \in {"loading", "drawing", "down", "failed"},
         status' \in {"loading", "drawing"}
           => status \in {"loading", "drawing"} /\ pipelines' = pipelines,
         status' = "drawing" => status = "drawing" \/ Len(shaders) >= 2
  PROVE  IInv'
  <1>1. TypeOK /\ NamesInv /\ MaterialsInv
    BY DEF IInv
  <1>2. Registered' = Registered
    BY DEF Registered
  <1>3. TypeOK'
    BY <1>1, <1>2 DEF TypeOK
  <1>4. SameTexts(programs, programs')
    BY DEF SameTexts
  <1>5. NamesInv'
    BY <1>1, <1>4, NamesKept
  <1>6. MaterialsInv'
    <2>1. 0 \notin DOMAIN programs'
      BY <1>3 DEF TypeOK
    <2>2. Len(shaders) \in Nat
      BY <1>1, ShaderFacts
    <2> QED BY <1>1, <2>1, <2>2, MaterialsKept
  <1> QED BY <1>3, <1>5, <1>6 DEF IInv

LEMMA DestroyKeeps ==
  ASSUME IInv, NEW k \in DOMAIN shaders, Destroy(k)
  PROVE  IInv'
  <1> DEFINE dead == [shaders[k] EXCEPT !.alive = FALSE]
  <1>1. TypeOK
    BY DEF IInv
  <1>2. Len(shaders) \in Nat /\ DOMAIN shaders = 1..Len(shaders) /\ shaders[k] \in ShaderType
    BY <1>1, ShaderFacts
  <1>3. dead \in ShaderType /\ SameShader(shaders[k], dead)
    BY <1>2 DEF ShaderType, SameShader
  <1>4. shaders' = [shaders EXCEPT ![k] = dead]
    BY DEF Destroy
  <1> HIDE DEF dead
  <1>5. /\ shaders' \in Seq(ShaderType) /\ Len(shaders') = Len(shaders)
        /\ \A j \in 1..Len(shaders) : shaders'[j] = IF j = k THEN dead ELSE shaders[j]
    BY <1>1, <1>2, <1>3, <1>4, ExceptSeq DEF TypeOK
  <1>6. DOMAIN shaders' = DOMAIN shaders
    BY <1>4
  <1>7. \A j \in DOMAIN shaders : SameShader(shaders[j], shaders'[j])
    BY <1>2, <1>3, <1>5 DEF SameShader
  <1>8. status' \in {"down", "failed"}
    BY DEF Destroy
  <1>9. DOMAIN pipelines' \subseteq DOMAIN pipelines
    BY DEF Destroy
  <1>10. UNCHANGED <<programs, pipelineNames, objectNames, materials, drawn, sent>>
    BY DEF Destroy
  <1> QED BY <1>5, <1>6, <1>7, <1>8, <1>9, <1>10, StatusKeeps

LEMMA SameIsSame == \A s : SameShader(s, s)
  BY DEF SameShader

LEMMA StartKeeps ==
  ASSUME IInv, StartDrawing \/ (\E texts \in Loads : LoadFails(texts)) \/ UNCHANGED vars
  PROVE  IInv'
  <1>1. UNCHANGED <<shaders, pipelines, programs, pipelineNames, objectNames, materials, drawn, sent>>
    BY DEF StartDrawing, LoadFails, vars, glVars
  <1>2. /\ status' \in {status, "drawing", "failed"}
        /\ status' \in {"loading", "drawing"} => status \in {"loading", "drawing"}
        /\ status' = "drawing" => status = "drawing" \/ Len(shaders) >= 2
    BY DEF StartDrawing, LoadFails, vars
  <1>3. status' \in {"loading", "drawing", "down", "failed"} /\ shaders' \in Seq(ShaderType)
    BY <1>1, <1>2 DEF IInv, TypeOK
  <1> QED BY <1>1, <1>2, <1>3, StatusKeeps, SameIsSame

-----------------------------------------------------------------------------
(* Materials *)

LEMMA AddKeeps ==
  ASSUME IInv, NEW v \in Values, LoadMaterial(v) \/ BartMaterial(v)
  PROVE  IInv'
  <1> DEFINE n == Len(materials)
             card == Cardinality(Registered)
  <1>1. TypeOK /\ NamesInv /\ IdsInv /\ KeptInv /\ ShownInv
    BY DEF IInv, MaterialsInv
  <1>2. /\ n \in Nat /\ DOMAIN materials = 1..n /\ Registered \subseteq DOMAIN materials
        /\ IsFiniteSet(Registered) /\ card \in Nat
    BY <1>1, RegisteredFacts
  <1>3. PICK new \in MaterialType :
          /\ materials' = Append(materials, new)
          /\ new.atId = -1 /\ new.atData = -1
          /\ new.registered => new.id = card
    <2>1. CASE LoadMaterial(v)
      <3> DEFINE new == [id |-> card, value |-> v, registered |-> TRUE, atId |-> -1, atData |-> -1]
      <3>1. new \in MaterialType /\ materials' = Append(materials, new)
        BY <1>2, <2>1 DEF LoadMaterial, MaterialType
      <3> QED BY <3>1
    <2>2. CASE BartMaterial(v)
      <3> DEFINE new == [id |-> 0, value |-> v, registered |-> FALSE, atId |-> -1, atData |-> -1]
      <3>1. new \in MaterialType /\ materials' = Append(materials, new)
        BY <2>2 DEF BartMaterial, MaterialType
      <3> QED BY <3>1
    <2> QED BY <2>1, <2>2
  <1>4. /\ UNCHANGED <<status, shaders, pipelines, programs, pipelineNames, objectNames, drawn, sent>>
        /\ Len(shaders) >= 2
    BY DEF LoadMaterial, BartMaterial, glVars
  <1>5. /\ materials' \in Seq(MaterialType) /\ Len(materials') = n + 1
        /\ DOMAIN materials' = 1..(n + 1) /\ materials'[n + 1] = new
        /\ \A m \in 1..n : materials'[m] = materials[m]
    BY <1>1, <1>3, AppendProperties, LenProperties DEF TypeOK
  <1> HIDE DEF n, card
  <1>6. Registered' = IF new.registered THEN Registered \cup {n + 1} ELSE Registered
    <2>1. \A m : m \in Registered' <=> m \in Registered \/ (m = n + 1 /\ new.registered)
      BY <1>2, <1>5 DEF Registered
    <2> QED BY <2>1
  <1>7. n + 1 \notin Registered
    BY <1>2
  <1>8. Cardinality(Registered') = IF new.registered THEN card + 1 ELSE card
    BY <1>2, <1>6, <1>7, FS_AddElement DEF card
  <1>9. \A m \in Registered' : m \in Registered \/ (m = n + 1 /\ new.registered)
    BY <1>6
  <1>10. TypeOK'
    <2>1. drawn' \in 0..Len(materials') /\ sent' \subseteq Registered'
      BY <1>1, <1>2, <1>4, <1>5, <1>6 DEF TypeOK, n
    <2> QED BY <1>1, <1>4, <1>5, <2>1 DEF TypeOK
  <1>11. NamesInv'
    BY <1>1, <1>4 DEF NamesInv
  <1>12. IdsInv'
    <2>1. \A m \in Registered : materials'[m] = materials[m] /\ materials[m].id \in Nat
      BY <1>1, <1>2, <1>5, RegisteredFacts DEF MaterialType
    <2>2. \A m \in Registered : materials[m].id < card
      BY <1>1 DEF IdsInv, card
    <2>3. \A m, o \in Registered : materials[m].id = materials[o].id => m = o
      BY <1>1 DEF IdsInv
    <2>4. \A m \in Registered' : materials'[m].id < Cardinality(Registered')
      <3> SUFFICES ASSUME NEW m \in Registered'
                   PROVE  materials'[m].id < Cardinality(Registered')
        OBVIOUS
      <3>1. CASE m \in Registered
        BY <1>2, <1>8, <2>1, <2>2, <3>1
      <3>2. CASE m = n + 1 /\ new.registered
        BY <1>2, <1>3, <1>5, <1>8, <3>2
      <3> QED BY <1>9, <3>1, <3>2
    <2>5. \A m, o \in Registered' : materials'[m].id = materials'[o].id => m = o
      <3> SUFFICES ASSUME NEW m \in Registered', NEW o \in Registered',
                          materials'[m].id = materials'[o].id
                   PROVE  m = o
        OBVIOUS
      <3>1. \A k \in Registered : materials'[k].id # card
        BY <1>2, <2>1, <2>2
      <3>2. new.registered => materials'[n + 1].id = card
        BY <1>3, <1>5
      <3> QED BY <1>9, <2>1, <2>3, <3>1, <3>2
    <2> QED BY <1>4, <2>4, <2>5 DEF IdsInv
  <1>13. IdAt' = IdAt
    BY <1>4 DEF IdAt, FS
  <1>14. \A m \in 1..n : DataAt(m)' = DataAt(m)
    BY <1>4, <1>5 DEF DataAt, FS
  <1>15. KeptInv'
    <2>1. \A m \in DOMAIN materials' : materials'[m].atId \in {-1, IdAt'}
      BY <1>1, <1>2, <1>3, <1>5, <1>13 DEF KeptInv
    <2>2. \A m \in Registered' : materials'[m].atData \in {-1, DataAt(m)'}
      BY <1>1, <1>2, <1>3, <1>5, <1>9, <1>14 DEF KeptInv
    <2> QED BY <2>1, <2>2 DEF KeptInv
  <1>16. ShownInv'
    <2>1. drawn # 0 => drawn \in 1..n
      BY <1>1, <1>2 DEF TypeOK, n
    <2>2. sent \subseteq 1..n
      BY <1>1, <1>2 DEF TypeOK
    <2>3. FS(1)' = FS(1) /\ FS(2)' = FS(2)
      BY <1>4 DEF FS
    <2> QED BY <1>1, <1>4, <1>5, <1>13, <1>14, <2>1, <2>2, <2>3 DEF ShownInv
  <1> QED BY <1>10, <1>11, <1>12, <1>15, <1>16 DEF IInv, MaterialsInv

-----------------------------------------------------------------------------
(* Drawing *)

(* the values of uniforms are written, and locations kept *)
LEMMA DrawingKeeps ==
  ASSUME IInv, status = "drawing",
         UNCHANGED <<status, shaders, pipelines, pipelineNames, objectNames>>,
         DOMAIN programs' = DOMAIN programs, SameTexts(programs, programs'),
         programs' \in [DOMAIN programs' -> ProgramType],
         materials' \in Seq(MaterialType), Len(materials') = Len(materials),
         \A m \in DOMAIN materials : /\ materials'[m].id = materials[m].id
                                    /\ materials'[m].value = materials[m].value
                                    /\ materials'[m].registered = materials[m].registered,
         drawn' \in 0..Len(materials), sent' \subseteq Registered
  PROVE  /\ TypeOK' /\ NamesInv' /\ IdsInv'
         /\ Registered' = Registered /\ DOMAIN materials' = DOMAIN materials
         /\ FS(1)' = FS(1) /\ FS(2)' = FS(2) /\ IdAt' = IdAt
         /\ \A m \in DOMAIN materials : DataAt(m)' = DataAt(m)
  <1>1. TypeOK /\ NamesInv /\ IdsInv
    BY DEF IInv, MaterialsInv
  <1>2. DOMAIN materials' = DOMAIN materials /\ DOMAIN materials = 1..Len(materials)
    BY <1>1, RegisteredFacts, LenProperties
  <1>3. Registered' = Registered
    BY <1>2 DEF Registered
  <1>4. TypeOK'
    BY <1>1, <1>3 DEF TypeOK
  <1>5. NamesInv'
    BY <1>1, NamesKept, SameIsSame
  <1>6. IdsInv'
    <2>1. \A m \in Registered : materials'[m].id = materials[m].id
      BY <1>1, RegisteredFacts
    <2>2. materials # << >> <=> materials' # << >>
      BY <1>1, EmptySeq DEF TypeOK
    <2> QED BY <1>1, <1>3, <2>1, <2>2 DEF IdsInv
  <1>7. FS(1)' = FS(1) /\ FS(2)' = FS(2)
    BY DEF FS
  <1>8. \A p, name : Loc(programs', p, name) = Loc(programs, p, name)
    BY LocSame
  <1>9. IdAt' = IdAt
    BY <1>7, <1>8 DEF IdAt
  <1>10. \A m \in DOMAIN materials : DataAt(m)' = DataAt(m)
    BY <1>7, <1>8 DEF DataAt
  <1> QED BY <1>2, <1>3, <1>4, <1>5, <1>6, <1>7, <1>9, <1>10

LEMMA SetValue ==
  ASSUME NEW r \in ProgramType, NEW l \in DOMAIN r.values, NEW x \in Nat \cup Values
  PROVE  LET s == [r EXCEPT !.values = [r.values EXCEPT ![l] = x]] IN
         /\ s \in ProgramType /\ s.text = r.text /\ DOMAIN s.values = DOMAIN r.values
         /\ s.values[l] = x
  <1> DEFINE v == [r.values EXCEPT ![l] = x]
             s == [r EXCEPT !.values = v]
  <1>1. PICK n \in Int : r.values \in [0..n -> Nat \cup Values]
    BY DEF ProgramType
  <1>2. v \in [0..n -> Nat \cup Values] /\ DOMAIN v = DOMAIN r.values /\ v[l] = x
    BY <1>1
  <1> HIDE DEF v
  <1>3. v \in UNION {[0..k -> Nat \cup Values] : k \in Int}
    BY <1>2
  <1>4. s \in ProgramType /\ s.text = r.text /\ s.values = v
    BY <1>3 DEF ProgramType
  <1> QED BY <1>2, <1>4 DEF v

LEMMA BindIdKeeps ==
  ASSUME IInv, NEW m \in DOMAIN materials, BindId(m)
  PROVE  IInv'
  <1> DEFINE p == FS(1)
             kept == materials[m].atId
             bound == [materials[m] EXCEPT !.atId = IdAt]
  <1>1. TypeOK /\ NamesInv /\ IdsInv /\ KeptInv /\ ShownInv
    BY DEF IInv, MaterialsInv
  <1>2. /\ Len(materials) \in Nat /\ DOMAIN materials = 1..Len(materials)
        /\ materials[m] \in MaterialType /\ Registered \subseteq DOMAIN materials
    BY <1>1, RegisteredFacts
  <1>3. programs \in [DOMAIN programs -> ProgramType]
    BY <1>1 DEF TypeOK
  <1>4. /\ IdAt \in Nat \cup {-1}
        /\ IdAt >= 0 => p \in DOMAIN programs /\ IdAt \in DOMAIN programs[p].values
        /\ p \in DOMAIN programs => \A l \in DOMAIN programs[p].values : l \in Nat
    BY <1>3, LocFacts DEF IdAt
  <1>5. Location(kept, IdProgram, MaterialId) = IdAt
    <2>1. kept \in {-1, IdAt}
      BY <1>1 DEF KeptInv
    <2>2. GetUniformLocation(IdProgram, MaterialId) = IdAt
      BY LocIs DEF IdAt, IdProgram
    <2> QED BY <1>4, <2>1, <2>2 DEF Location
  <1>6. /\ status = "drawing" /\ materials' = [materials EXCEPT ![m] = bound]
        /\ UNCHANGED <<status, shaders, pipelines, pipelineNames, objectNames, sent>>
        /\ drawn' = m
    BY <1>5 DEF BindId
  <1>7. programs' = IF p \in DOMAIN programs /\ IdAt \in DOMAIN programs[p].values
                    THEN [programs EXCEPT ![p] =
                            [programs[p] EXCEPT !.values =
                               [programs[p].values EXCEPT ![IdAt] = materials[m].id]]]
                    ELSE programs
    BY <1>5 DEF BindId, IdProgram
  <1>8. bound \in MaterialType /\ bound.id = materials[m].id /\ bound.value = materials[m].value
          /\ bound.registered = materials[m].registered
          /\ bound.atId = IdAt /\ bound.atData = materials[m].atData
    BY <1>2, <1>4 DEF MaterialType
  <1> HIDE DEF p, kept, bound
  <1>9. /\ materials' \in Seq(MaterialType) /\ Len(materials') = Len(materials)
        /\ \A o \in 1..Len(materials) : materials'[o] = IF o = m THEN bound ELSE materials[o]
    BY <1>1, <1>2, <1>6, <1>8, ExceptSeq DEF TypeOK
  <1>10. materials[m].id \in Nat \cup Values
    BY <1>2 DEF MaterialType
  <1>11. /\ DOMAIN programs' = DOMAIN programs
         /\ \A q \in DOMAIN programs : q # p => programs'[q] = programs[q]
    BY <1>7
  <1>12. p \in DOMAIN programs =>
           /\ programs'[p] \in ProgramType /\ programs'[p].text = programs[p].text
           /\ DOMAIN programs'[p].values = DOMAIN programs[p].values
           /\ IdAt \in DOMAIN programs[p].values => programs'[p].values[IdAt] = materials[m].id
    <2> SUFFICES ASSUME p \in DOMAIN programs
                 PROVE  /\ programs'[p] \in ProgramType /\ programs'[p].text = programs[p].text
                        /\ DOMAIN programs'[p].values = DOMAIN programs[p].values
                        /\ IdAt \in DOMAIN programs[p].values
                             => programs'[p].values[IdAt] = materials[m].id
      OBVIOUS
    <2>1. programs[p] \in ProgramType
      BY <1>3
    <2>2. CASE IdAt \in DOMAIN programs[p].values
      <3> DEFINE after == [programs[p] EXCEPT !.values =
                             [programs[p].values EXCEPT ![IdAt] = materials[m].id]]
      <3>1. programs'[p] = after
        BY <1>7, <2>2
      <3>2. after \in ProgramType /\ after.text = programs[p].text
              /\ DOMAIN after.values = DOMAIN programs[p].values
              /\ after.values[IdAt] = materials[m].id
        BY <1>10, <2>1, <2>2, SetValue
      <3> HIDE DEF after
      <3> QED BY <3>1, <3>2
    <2>3. CASE IdAt \notin DOMAIN programs[p].values
      BY <1>7, <2>1, <2>3
    <2> QED BY <2>2, <2>3
  <1>13. SameTexts(programs, programs')
    BY <1>11, <1>12 DEF SameTexts
  <1>14. programs' \in [DOMAIN programs' -> ProgramType]
    <2>1. \A q \in DOMAIN programs' : programs'[q] \in ProgramType
      BY <1>3, <1>11, <1>12
    <2>2. programs' = [q \in DOMAIN programs' |-> programs'[q]]
      BY <1>3, <1>7
    <2> QED BY <2>1, <2>2
  <1>15. \A o \in DOMAIN materials : /\ materials'[o].id = materials[o].id
                                     /\ materials'[o].value = materials[o].value
                                     /\ materials'[o].registered = materials[o].registered
                                     /\ materials'[o].atData = materials[o].atData
                                     /\ materials'[o].atId \in {materials[o].atId, IdAt}
    BY <1>2, <1>8, <1>9
  <1>16. drawn' \in 0..Len(materials) /\ sent' \subseteq Registered
    BY <1>1, <1>2, <1>6 DEF TypeOK
  <1>17. /\ TypeOK' /\ NamesInv' /\ IdsInv'
         /\ Registered' = Registered /\ DOMAIN materials' = DOMAIN materials
         /\ FS(1)' = FS(1) /\ FS(2)' = FS(2) /\ IdAt' = IdAt
         /\ \A o \in DOMAIN materials : DataAt(o)' = DataAt(o)
    BY <1>6, <1>9, <1>11, <1>13, <1>14, <1>15, <1>16, DrawingKeeps
  <1>18. KeptInv'
    <2>1. \A o \in DOMAIN materials' : materials'[o].atId \in {-1, IdAt'}
      BY <1>1, <1>15, <1>17 DEF KeptInv
    <2>2. \A o \in Registered' : materials'[o].atData \in {-1, DataAt(o)'}
      BY <1>1, <1>2, <1>15, <1>17 DEF KeptInv
    <2> QED BY <2>1, <2>2 DEF KeptInv
  <1>19. ShownInv'
    <2>1. IdAt >= 0 => programs'[p].values[IdAt] = materials'[drawn'].id
      BY <1>4, <1>6, <1>12, <1>15
    <2>2. Len(shaders) >= 2
      BY <1>1, <1>6 DEF IdsInv
    <2>3. FS(2) \in DOMAIN programs => FS(2) # p
      BY <1>1, <2>2, PassPrograms DEF p
    <2>4. ASSUME NEW o \in sent', DataAt(o)' >= 0
          PROVE  programs'[FS(2)'].values[DataAt(o)'] = materials'[o].value
      <3>1. o \in sent /\ o \in DOMAIN materials
        BY <1>1, <1>2, <1>6, <2>4 DEF TypeOK
      <3>2. DataAt(o) >= 0 /\ FS(2) \in DOMAIN programs
        BY <1>3, <1>17, <2>4, <3>1, LocFacts DEF DataAt
      <3>3. programs[FS(2)].values[DataAt(o)] = materials[o].value
        BY <1>1, <3>1, <3>2 DEF ShownInv
      <3> QED BY <1>11, <1>15, <1>17, <2>3, <3>1, <3>2, <3>3
    <2> QED BY <1>17, <2>1, <2>4 DEF ShownInv, p
  <1> QED BY <1>17, <1>18, <1>19 DEF IInv, MaterialsInv

LEMMA MaxOfOne ==
  ASSUME NEW m \in Nat
  PROVE  Max({m}) = m
  BY DEF Max

LEMMA BindDataKeeps ==
  ASSUME IInv, BindData
  PROVE  IInv'
  <1> DEFINE p == FS(2)
             at == [m \in Registered |->
                      Location(materials[m].atData, p, MaterialData(materials[m].id))]
             atPlace(l) == {m \in Registered : at[m] = l}
             new(l, old) == IF atPlace(l) = {} THEN old ELSE materials[Max(atPlace(l))].value
             bound(m) == [materials[m] EXCEPT !.atData = at[m]]
  <1>1. TypeOK /\ NamesInv /\ IdsInv /\ KeptInv /\ ShownInv
    BY DEF IInv, MaterialsInv
  <1>2. /\ Len(materials) \in Nat /\ DOMAIN materials = 1..Len(materials)
        /\ \A m \in DOMAIN materials : materials[m] \in MaterialType
        /\ Registered \subseteq DOMAIN materials
    BY <1>1, RegisteredFacts
  <1>3. programs \in [DOMAIN programs -> ProgramType]
    BY <1>1 DEF TypeOK
  <1>4. ASSUME NEW m \in Registered
        PROVE  /\ DataAt(m) \in Nat \cup {-1} /\ at[m] = DataAt(m)
               /\ DataAt(m) >= 0 =>
                    /\ p \in DOMAIN programs /\ DataAt(m) \in DOMAIN programs[p].values
                    /\ Declared[programs[p].text][DataAt(m) + 1] = MaterialData(materials[m].id)
    <2>1. materials[m].atData \in {-1, DataAt(m)}
      BY <1>1 DEF KeptInv
    <2>2. GetUniformLocation(p, MaterialData(materials[m].id)) = DataAt(m)
      BY LocIs DEF DataAt
    <2>3. /\ DataAt(m) \in Nat \cup {-1}
          /\ DataAt(m) >= 0 =>
               /\ p \in DOMAIN programs /\ DataAt(m) \in DOMAIN programs[p].values
               /\ Declared[programs[p].text][DataAt(m) + 1] = MaterialData(materials[m].id)
      BY <1>3, LocFacts DEF DataAt
    <2>4. at[m] = Location(materials[m].atData, p, MaterialData(materials[m].id))
      OBVIOUS
    <2> HIDE DEF p, at
    <2>5. at[m] = DataAt(m)
      BY <2>1, <2>2, <2>3, <2>4 DEF Location
    <2> QED BY <2>3, <2>5
  <1>5. DOMAIN at = Registered
    OBVIOUS
  <1>6. /\ status = "drawing" /\ sent' = Registered
        /\ UNCHANGED <<status, shaders, pipelines, pipelineNames, objectNames, drawn>>
        /\ materials' = [m \in DOMAIN materials |->
                            IF m \in Registered THEN bound(m) ELSE materials[m]]
    BY DEF BindData
  <1>7. programs' = IF p \in DOMAIN programs
                    THEN [programs EXCEPT ![p] =
                            [programs[p] EXCEPT !.values =
                               [l \in DOMAIN programs[p].values |-> new(l, programs[p].values[l])]]]
                    ELSE programs
    BY DEF BindData
  <1> HIDE DEF p, at
  (* no two materials are at one place *)
  <1>8. ASSUME NEW m \in Registered, DataAt(m) >= 0 PROVE atPlace(DataAt(m)) = {m}
    <2>1. ASSUME NEW o \in Registered, at[o] = DataAt(m) PROVE o = m
      <3>1. MaterialData(materials[o].id) = MaterialData(materials[m].id)
        BY <1>4, <1>8, <2>1
      <3>2. materials[o].id = materials[m].id
        BY <3>1 DEF MaterialData
      <3> QED BY <1>1, <3>2 DEF IdsInv
    <2>2. at[m] = DataAt(m)
      BY <1>4
    <2> QED BY <2>1, <2>2
  <1>9. ASSUME NEW m \in Registered, DataAt(m) >= 0, NEW old
        PROVE  new(DataAt(m), old) = materials[m].value
    <2>1. m \in Nat
      BY <1>2
    <2>2. atPlace(DataAt(m)) = {m} /\ Max({m}) = m
      BY <1>8, <1>9, <2>1, MaxOfOne
    <2> HIDE DEF atPlace
    <2> QED BY <2>2
  <1>10. ASSUME NEW l \in Nat, NEW old \in Nat \cup Values
         PROVE  new(l, old) \in Nat \cup Values
    <2>1. CASE atPlace(l) = {}
      BY <1>10, <2>1
    <2>2. CASE atPlace(l) # {}
      <3>1. PICK m \in Registered : at[m] = l
        BY <2>2
      <3>2. l = DataAt(m) /\ DataAt(m) >= 0
        BY <1>4, <1>10, <3>1
      <3>3. new(l, old) = materials[m].value
        BY <1>9, <3>2
      <3>4. materials[m] \in MaterialType
        BY <1>2
      <3> HIDE DEF new
      <3> QED BY <3>3, <3>4 DEF MaterialType
    <2> QED BY <2>1, <2>2
  <1> HIDE DEF new, atPlace
  <1>11. /\ DOMAIN programs' = DOMAIN programs
         /\ \A q \in DOMAIN programs : q # p => programs'[q] = programs[q]
    BY <1>7
  <1>12. ASSUME p \in DOMAIN programs
         PROVE  /\ programs'[p] \in ProgramType /\ programs'[p].text = programs[p].text
                /\ DOMAIN programs'[p].values = DOMAIN programs[p].values
                /\ \A l \in DOMAIN programs[p].values :
                     programs'[p].values[l] = new(l, programs[p].values[l])
    <2> DEFINE v == [l \in DOMAIN programs[p].values |-> new(l, programs[p].values[l])]
    <2>1. programs[p] \in ProgramType
      BY <1>3, <1>12
    <2>2. PICK n \in Int : programs[p].values \in [0..n -> Nat \cup Values]
      BY <2>1 DEF ProgramType
    <2>3. v \in [0..n -> Nat \cup Values] /\ DOMAIN v = DOMAIN programs[p].values
      <3>1. /\ DOMAIN programs[p].values = 0..n
            /\ \A l \in 0..n : l \in Nat /\ programs[p].values[l] \in Nat \cup Values
        BY <2>2
      <3>2. \A l \in 0..n : new(l, programs[p].values[l]) \in Nat \cup Values
        BY <1>10, <3>1
      <3> QED BY <3>1, <3>2
    <2>4. \A l \in DOMAIN programs[p].values : v[l] = new(l, programs[p].values[l])
      OBVIOUS
    <2>5. programs'[p] = [programs[p] EXCEPT !.values = v]
      BY <1>7, <1>12
    <2> HIDE DEF v
    <2>6. v \in UNION {[0..k -> Nat \cup Values] : k \in Int}
      BY <2>3
    <2>7. /\ programs'[p] \in ProgramType /\ programs'[p].text = programs[p].text
          /\ programs'[p].values = v
      BY <2>1, <2>5, <2>6 DEF ProgramType
    <2> QED BY <2>3, <2>4, <2>7
  <1>13. SameTexts(programs, programs')
    BY <1>11, <1>12 DEF SameTexts
  <1>14. programs' \in [DOMAIN programs' -> ProgramType]
    <2>1. \A q \in DOMAIN programs' : programs'[q] \in ProgramType
      BY <1>3, <1>11, <1>12
    <2>2. programs' = [q \in DOMAIN programs' |-> programs'[q]]
      BY <1>3, <1>7
    <2> QED BY <2>1, <2>2
  <1>15. \A m \in Registered : /\ bound(m) \in MaterialType /\ bound(m).id = materials[m].id
                               /\ bound(m).value = materials[m].value
                               /\ bound(m).registered = materials[m].registered
                               /\ bound(m).atId = materials[m].atId
                               /\ bound(m).atData = DataAt(m)
    <2> SUFFICES ASSUME NEW m \in Registered
                 PROVE  /\ bound(m) \in MaterialType /\ bound(m).id = materials[m].id
                        /\ bound(m).value = materials[m].value
                        /\ bound(m).registered = materials[m].registered
                        /\ bound(m).atId = materials[m].atId
                        /\ bound(m).atData = DataAt(m)
      OBVIOUS
    <2>1. materials[m] \in MaterialType /\ DataAt(m) \in Int /\ at[m] = DataAt(m)
      BY <1>2, <1>4
    <2> QED BY <2>1 DEF MaterialType
  <1> HIDE DEF bound
  <1>16. \A m \in DOMAIN materials : /\ materials'[m] \in MaterialType
                                     /\ materials'[m].id = materials[m].id
                                     /\ materials'[m].value = materials[m].value
                                     /\ materials'[m].registered = materials[m].registered
                                     /\ materials'[m].atId = materials[m].atId
                                     /\ m \in Registered => materials'[m].atData = DataAt(m)
    BY <1>2, <1>6, <1>15
  <1>17. materials' \in Seq(MaterialType) /\ Len(materials') = Len(materials)
    <2>1. materials' \in [1..Len(materials) -> MaterialType]
      BY <1>2, <1>6, <1>16
    <2> QED BY <1>2, <2>1, IsASeq, LenProperties
  <1>18. drawn' \in 0..Len(materials) /\ sent' \subseteq Registered
    BY <1>1, <1>6 DEF TypeOK
  <1>19. /\ TypeOK' /\ NamesInv' /\ IdsInv'
         /\ Registered' = Registered /\ DOMAIN materials' = DOMAIN materials
         /\ FS(1)' = FS(1) /\ FS(2)' = FS(2) /\ IdAt' = IdAt
         /\ \A o \in DOMAIN materials : DataAt(o)' = DataAt(o)
    BY <1>6, <1>11, <1>13, <1>14, <1>16, <1>17, <1>18, DrawingKeeps
  <1>20. KeptInv'
    <2>1. \A o \in DOMAIN materials' : materials'[o].atId \in {-1, IdAt'}
      BY <1>1, <1>16, <1>19 DEF KeptInv
    <2>2. \A o \in Registered' : materials'[o].atData \in {-1, DataAt(o)'}
      BY <1>2, <1>16, <1>19
    <2> QED BY <2>1, <2>2 DEF KeptInv
  <1>21. ShownInv'
    <2>1. ASSUME drawn' # 0, IdAt' >= 0
          PROVE  programs'[FS(1)'].values[IdAt'] = materials'[drawn'].id
      <3>1. Len(shaders) >= 2
        BY <1>1, <1>6 DEF IdsInv
      <3>2. FS(1) \in DOMAIN programs
        BY <1>3, <1>19, <2>1, LocFacts DEF IdAt
      <3>3. FS(1) # p
        BY <1>1, <3>1, <3>2, PassPrograms DEF p
      <3>4. drawn \in DOMAIN materials
        BY <1>1, <1>2, <1>6, <2>1 DEF TypeOK
      <3> QED BY <1>1, <1>6, <1>11, <1>16, <1>19, <2>1, <3>2, <3>3, <3>4 DEF ShownInv
    <2>2. ASSUME NEW m \in sent', DataAt(m)' >= 0
          PROVE  programs'[FS(2)'].values[DataAt(m)'] = materials'[m].value
      <3>1. m \in Registered /\ m \in DOMAIN materials /\ DataAt(m)' = DataAt(m)
        BY <1>2, <1>6, <1>19
      <3>2. p \in DOMAIN programs /\ DataAt(m) \in DOMAIN programs[p].values
        BY <1>4, <2>2, <3>1
      <3>3. programs'[p].values[DataAt(m)] = materials[m].value
        BY <1>9, <1>12, <2>2, <3>1, <3>2
      <3>4. FS(2)' = p
        BY <1>19 DEF p
      <3> QED BY <1>16, <3>1, <3>3, <3>4
    <2> QED BY <2>1, <2>2 DEF ShownInv
  <1> QED BY <1>19, <1>20, <1>21 DEF IInv, MaterialsInv

-----------------------------------------------------------------------------
(* Theorems *)

LEMMA InitIInv == Init => IInv
  <1> SUFFICES ASSUME Init PROVE IInv
    OBVIOUS
  <1>1. Registered = {} /\ DOMAIN shaders = {} /\ DOMAIN materials = {}
    BY EmptySeq DEF Init, Registered
  <1>2. Len(materials) = 0
    BY EmptySeq DEF Init
  <1>3. TypeOK
    <2>1. shaders \in Seq(ShaderType) /\ materials \in Seq(MaterialType)
      BY EmptySeq DEF Init
    <2>2. programs \in [DOMAIN programs -> ProgramType]
            /\ DOMAIN programs = {} /\ DOMAIN pipelines = {}
      BY DEF Init
    <2> QED BY <1>1, <1>2, <2>1, <2>2 DEF Init, TypeOK
  <1>4. NamesInv
    BY <1>1 DEF NamesInv, Apart
  <1>5. MaterialsInv
    BY <1>1 DEF Init, MaterialsInv, IdsInv, KeptInv, ShownInv
  <1> QED BY <1>3, <1>4, <1>5 DEF IInv

LEMMA NextIInv == IInv /\ [Next]_vars => IInv'
  <1> SUFFICES ASSUME IInv, [Next]_vars PROVE IInv'
    OBVIOUS
  <1>1. CASE \E texts \in Loads : Load(texts)
    BY <1>1, LoadKeeps
  <1>2. CASE \E v \in Values : LoadMaterial(v) \/ BartMaterial(v)
    BY <1>2, AddKeeps
  <1>3. CASE \E m \in DOMAIN materials : BindId(m)
    BY <1>3, BindIdKeeps
  <1>4. CASE BindData
    BY <1>4, BindDataKeeps
  <1>5. CASE \E k \in DOMAIN shaders : Destroy(k)
    BY <1>5, DestroyKeeps
  <1>6. CASE StartDrawing \/ (\E texts \in Loads : LoadFails(texts)) \/ UNCHANGED vars
    BY <1>6, StartKeeps
  <1> QED BY <1>1, <1>2, <1>3, <1>4, <1>5, <1>6 DEF Next

(* GL's names are given once, ids of registered materials are their own,   *)
(* and a location that is kept stays that of its uniform.                  *)
THEOREM NamesGivenOnce == Spec => []IInv
  <1> QED BY InitIInv, NextIInv, PTL DEF Spec

(* However many shaders are loaded, and whichever stages each of them has, *)
(* every stage of every pipeline runs the program made from its own text.  *)
THEOREM EveryStageItsOwn == Spec => []StagesAreOwn
  <1>1. ASSUME IInv PROVE StagesAreOwn
    <2> SUFFICES ASSUME status \in {"loading", "drawing"},
                        NEW k \in DOMAIN shaders, NEW i \in Stage
                 PROVE  LET text == shaders[k].texts[i]
                            p == Get(shaders[k], i)
                        IN /\ IF text = Empty THEN p = 0
                              ELSE p \in DOMAIN programs /\ programs[p].text = text
                           /\ pipelines[shaders[k].handles[0]][i]
                                = (IF text \in Broken THEN 0 ELSE p)
                           /\ p # 0 => \A other \in DOMAIN shaders, j \in Stage :
                                         Get(shaders[other], j) = p => other = k /\ j = i
      BY DEF StagesAreOwn
    <2>1. Finds(shaders[k], programs) /\ Runs(shaders[k], pipelines) /\ Apart(shaders)
      BY <1>1 DEF IInv, NamesInv
    <2> QED BY <2>1 DEF Finds, Runs, Apart
  <1> QED BY <1>1, NamesGivenOnce, PTL

(* The material bound last is the one the final pass looks up, whatever    *)
(* materials and shaders there are, and wherever GL put the uniforms.      *)
THEOREM MaterialBoundIsShown == Spec => []MaterialsShown
  <1>1. ASSUME IInv PROVE MaterialsShown
    <2>1. GetUniformLocation(FS(1), MaterialId) = IdAt
      BY LocIs DEF IdAt
    <2>2. GetUniformLocation(FS(2), MaterialData(materials[drawn].id)) = DataAt(drawn)
      BY LocIs DEF DataAt
    <2> QED BY <1>1, <2>1, <2>2 DEF IInv, MaterialsInv, ShownInv, MaterialsShown
  <1> QED BY <1>1, NamesGivenOnce, PTL
=============================================================================
