-------------------------- MODULE BartLoader_proofs --------------------------
(***************************************************************************)
(* Theorems about BartLoader (Spec), for every set of files: whatever      *)
(* their tokens, however many, balanced or not, with cyclic includes or    *)
(* without; and, from "Every token is read at most once" on, about         *)
(* InitScene, which extends it (SpecS).  Only the latter use               *)
(* DistinctMeshesAssumption.                                               *)
(***************************************************************************)
EXTENDS InitScene, SequenceTheorems, FiniteSetTheorems, WellFoundedInduction, TLAPS

(* The inductive invariant.  TypeOK alone is not inductive: an action that *)
(* pops a stack keeps its type only because StacksInStep says the stack is *)
(* not empty.                                                              *)
IdleEmpty ==
  status = "idle" => /\ reader = << >> /\ nodes = << >>
                     /\ xformStack = << >> /\ xformTypeStack = << >>

IInv ==
  /\ scene \in Scenes
  /\ TypeOK
  /\ IdleEmpty
  /\ StacksInStep

-----------------------------------------------------------------------------
(* std::stack::push and pop, as Append and Pop *)

LEMMA PushFacts ==
  ASSUME NEW S, NEW stack \in Seq(S), NEW e \in S
  PROVE  /\ Append(stack, e) \in Seq(S)
         /\ Len(Append(stack, e)) = Len(stack) + 1
         /\ Top(Append(stack, e)) = e
         /\ \A i \in 1..Len(stack) : Append(stack, e)[i] = stack[i]
  <1>1. /\ Append(stack, e) \in Seq(S)
        /\ Len(Append(stack, e)) = Len(stack) + 1
        /\ \A i \in 1..Len(stack) : Append(stack, e)[i] = stack[i]
        /\ Append(stack, e)[Len(stack) + 1] = e
    BY AppendProperties
  <1> QED BY <1>1 DEF Top

LEMMA PopFacts ==
  ASSUME NEW S, NEW stack \in Seq(S), stack # << >>
  PROVE  /\ Len(stack) \in Nat \ {0}
         /\ Top(stack) \in S
         /\ Pop(stack) \in Seq(S)
         /\ Len(Pop(stack)) = Len(stack) - 1
         /\ \A i \in 1..(Len(stack) - 1) : Pop(stack)[i] = stack[i]
  <1>1. PICK n \in Nat \ {0} : n = Len(stack)
    BY EmptySeq
  <1>2. \A i \in 1..(n - 1) : stack[i] \in S
    BY <1>1, ElementOfSeq
  <1>3. /\ Pop(stack) \in Seq(S)
        /\ Len(Pop(stack)) = IF 1 <= n - 1 THEN (n - 1) - 1 + 1 ELSE 0
        /\ \A i \in 1..((n - 1) - 1 + 1) : Pop(stack)[i] = stack[1 + i - 1]
    BY <1>1, <1>2, SubSeqProperties DEF Pop
  <1>4. Top(stack) \in S
    BY <1>1, ElementOfSeq DEF Top
  <1>5. Len(Pop(stack)) = n - 1
    BY <1>3
  <1>6. ASSUME NEW i \in 1..(n - 1)
        PROVE  Pop(stack)[i] = stack[i]
    <2>1. i \in 1..((n - 1) - 1 + 1) /\ 1 + i - 1 = i
      OBVIOUS
    <2> QED BY <2>1, <1>3
  <1> QED BY <1>1, <1>3, <1>4, <1>5, <1>6

(* a graph that grows keeps the type of the nodes it has *)
LEMMA NodesGrow ==
  ASSUME NEW k \in Nat, NEW l \in Nat, k <= l
  PROVE  /\ Seq(1..k) \subseteq Seq(1..l)
         /\ NodeRecord(k) \subseteq NodeRecord(l)
         /\ Seq(NodeRecord(k)) \subseteq Seq(NodeRecord(l))
  <1>1. 1..k \subseteq 1..l
    OBVIOUS
  <1>2. Seq(1..k) \subseteq Seq(1..l)
    BY <1>1, SeqMonotonic
  <1>3. NodeRecord(k) \subseteq NodeRecord(l)
    BY <1>2 DEF NodeRecord
  <1>4. Seq(NodeRecord(k)) \subseteq Seq(NodeRecord(l))
    BY <1>3, SeqMonotonic
  <1> QED BY <1>2, <1>3, <1>4

LEMMA AddChildFacts ==
  ASSUME NEW k \in Nat, NEW ns \in Seq(NodeRecord(k)), NEW p \in 1..Len(ns), NEW c \in 1..k
  PROVE  /\ AddChild(ns, p, c) \in Seq(NodeRecord(k))
         /\ Len(AddChild(ns, p, c)) = Len(ns)
         /\ \A n \in 1..Len(ns) :
              /\ n # p => AddChild(ns, p, c)[n] = ns[n]
              /\ AddChild(ns, p, c)[n].name = ns[n].name
              /\ AddChild(ns, p, c)[n].fileScope = ns[n].fileScope
              /\ AddChild(ns, p, c)[n].xform = ns[n].xform
         /\ AddChild(ns, p, c)[p].children = Append(ns[p].children, c)
  <1> DEFINE node == [ns[p] EXCEPT !.children = Append(@, c)]
  <1>1. ns[p] \in NodeRecord(k)
    BY ElementOfSeq
  <1>2. Append(ns[p].children, c) \in Seq(1..k)
    BY <1>1, AppendProperties DEF NodeRecord
  <1>3. node \in NodeRecord(k) /\ node.name = ns[p].name /\ node.xform = ns[p].xform
          /\ node.fileScope = ns[p].fileScope /\ node.children = Append(ns[p].children, c)
    BY <1>1, <1>2 DEF NodeRecord
  <1>4. AddChild(ns, p, c) = [ns EXCEPT ![p] = node]
    BY DEF AddChild
  <1>5. /\ [ns EXCEPT ![p] = node] \in Seq(NodeRecord(k))
        /\ Len([ns EXCEPT ![p] = node]) = Len(ns)
        /\ \A j \in 1..Len(ns) :
             [ns EXCEPT ![p] = node][j] = IF j = p THEN node ELSE ns[j]
    BY <1>3, ExceptSeq
  <1> HIDE DEF node
  <1> QED BY <1>3, <1>4, <1>5

LEMMA NewNodeType ==
  ASSUME NEW k \in Nat,
         NEW name \in XformName \cup {"root", "null", "static"},
         NEW scope \in FileName \cup {"root"}, NEW xform \in Matrix
  PROVE  NewNode(name, scope, xform) \in NodeRecord(k)
  BY EmptySeq DEF NewNode, NodeRecord

-----------------------------------------------------------------------------
(* The token parseFile reads is one of the format's *)

LEMMA TokenType ==
  ASSUME scene \in Scenes, ReaderTypeOK, NEW op, At(op), reader # << >>
  PROVE  Tok \in Token /\ Tok.op = op
  <1>1. Frame \in [file : DOMAIN scene, pos : Nat \ {0}]
    BY PopFacts DEF ReaderTypeOK, Frame
  <1>2. scene \in [DOMAIN scene -> Seq(Token)]
    BY ScenesAssumption
  <1>3. scene[Frame.file] \in Seq(Token)
    BY <1>1, <1>2
  <1>4. Frame.pos \in 1..Len(scene[Frame.file])
    BY <1>1, <1>3, LenProperties DEF At, AtEof
  <1> QED BY <1>3, <1>4, ElementOfSeq DEF At, Tok

LEMMA AdvanceType ==
  ASSUME ReaderTypeOK, reader # << >>
  PROVE  /\ Advanced \in Seq([file : DOMAIN scene, pos : Nat \ {0}])
         /\ Len(Advanced) = Len(reader)
         /\ Len(reader) \in Nat \ {0}
  <1> DEFINE S == [file : DOMAIN scene, pos : Nat \ {0}]
  <1> DEFINE n == Len(reader)
  <1> DEFINE frame == [reader[n] EXCEPT !.pos = @ + 1]
  <1>1. n \in Nat \ {0} /\ reader[n] \in S
    BY PopFacts DEF ReaderTypeOK, Top
  <1>2. frame \in S
    BY <1>1
  <1>3. Advanced = [reader EXCEPT ![n] = frame]
    BY DEF Advanced
  <1> HIDE DEF frame
  <1> QED BY <1>1, <1>2, <1>3, ExceptSeq DEF ReaderTypeOK

-----------------------------------------------------------------------------
(* What every parsing step may rely on *)

LEMMA ParseFacts ==
  ASSUME IInv, status = "parse"
  PROVE  /\ reader # << >>
         /\ Len(nodes) \in Nat \ {0}
         /\ sceneNode \in NodeIds
         /\ nodeStack # << >>
         /\ sceneNode = Top(nodeStack)
         /\ fileScopeStack # << >>
         /\ Top(fileScopeStack) \in FileName \cup {"root"}
  <1> USE DEF IInv, TypeOK, StacksInStep
  <1>1. reader # << >> /\ fileScopeStack # << >>
    BY EmptySeq DEF ReaderTypeOK, GraphTypeOK
  <1>2. Len(fileScopeStack) \in Nat \ {0} /\ Len(xformTypeStack) \in Nat
    BY <1>1, EmptySeq, LenProperties DEF GraphTypeOK, XformTypeOK
  <1>3. nodeStack # << >>
    BY <1>2, EmptySeq DEF GraphTypeOK
  <1>4. sceneNode \in NodeIds
    BY <1>3, PopFacts DEF GraphTypeOK
  <1>5. Len(nodes) \in Nat
    BY LenProperties DEF GraphTypeOK
  <1>6. Len(nodes) \in Nat \ {0}
    BY <1>4, <1>5 DEF NodeIds
  <1>7. Top(fileScopeStack) \in FileName \cup {"root"}
    BY <1>1, PopFacts DEF GraphTypeOK
  <1> QED BY <1>1, <1>3, <1>4, <1>6, <1>7

LEMMA PushNodeType ==
  ASSUME GraphTypeOK, sceneNode \in NodeIds,
         NEW name \in XformName \cup {"null", "static"},
         NEW xform \in Matrix,
         NEW scopes \in Seq(FileName \cup {"root"}), scopes # << >>,
         name = "null" => Top(scopes) \in FileName,
         fileScopeStack' \in Seq(FileName \cup {"root"}),
         PushNode(name, xform, scopes)
  PROVE  /\ GraphTypeOK'
         /\ Len(nodes') = Len(nodes) + 1
         /\ Len(nodeStack') = Len(nodeStack) + 1
         /\ Top(nodeStack') = sceneNode'
  <1> DEFINE new == Len(nodes) + 1
  <1> DEFINE grown == AddChild(nodes, sceneNode, new)
  <1> DEFINE node == NewNode(name, Top(scopes), xform)
  <1>1. Len(nodes) \in Nat /\ new \in Nat /\ new \in 1..new /\ Len(nodes) <= new
    BY LenProperties DEF GraphTypeOK
  <1>2. nodes \in Seq(NodeRecord(new)) /\ nodeStack \in Seq(1..new)
    BY <1>1, NodesGrow DEF GraphTypeOK, NodeIds
  <1>3. grown \in Seq(NodeRecord(new)) /\ Len(grown) = Len(nodes)
    BY <1>1, <1>2, AddChildFacts DEF NodeIds
  <1>4. Top(scopes) \in FileName \cup {"root"}
    BY PopFacts
  <1>5. node \in NodeRecord(new)
    BY <1>1, <1>4, NewNodeType
  <1>6. nodes' = Append(grown, node) /\ sceneNode' = new /\ nodeStack' = Append(nodeStack, new)
    BY DEF PushNode
  <1>7. nodes' \in Seq(NodeRecord(new)) /\ Len(nodes') = new
    <2> HIDE DEF grown, node, new
    <2> QED BY <1>3, <1>5, <1>6, PushFacts DEF new
  <1>8. nodeStack' \in Seq(1..new) /\ Len(nodeStack') = Len(nodeStack) + 1 /\ Top(nodeStack') = new
    BY <1>1, <1>2, <1>6, PushFacts
  <1>9. /\ DOMAIN includefileToNodeMap' \subseteq FileName
        /\ includefileToNodeMap' \in [DOMAIN includefileToNodeMap' -> 1..new]
    <2>1. includefileToNodeMap \in [DOMAIN includefileToNodeMap -> 1..new]
      BY <1>1 DEF GraphTypeOK, NodeIds
    <2>2. CASE name = "null"
      BY <2>1, <2>2, <1>1 DEF PushNode, Mapped, Put, GraphTypeOK
    <2>3. CASE name # "null"
      BY <2>1, <2>3 DEF PushNode, Mapped, Put, GraphTypeOK
    <2> QED BY <2>2, <2>3
  <1> QED BY <1>1, <1>6, <1>7, <1>8, <1>9 DEF GraphTypeOK, NodeIds

LEMMA PopNodeType ==
  ASSUME GraphTypeOK, Len(nodeStack) >= 2, PopNode,
         fileScopeStack' \in Seq(FileName \cup {"root"})
  PROVE  /\ GraphTypeOK'
         /\ nodes' = nodes
         /\ Len(nodeStack') = Len(nodeStack) - 1
         /\ Top(nodeStack') = sceneNode'
  <1>1. nodeStack # << >> /\ Len(nodeStack) \in Nat
    BY EmptySeq, LenProperties DEF GraphTypeOK
  <1>2. Pop(nodeStack) \in Seq(NodeIds) /\ Len(Pop(nodeStack)) = Len(nodeStack) - 1
    BY <1>1, PopFacts DEF GraphTypeOK
  <1>3. Pop(nodeStack) # << >>
    BY <1>1, <1>2, EmptySeq
  <1>4. Top(Pop(nodeStack)) \in NodeIds
    BY <1>2, <1>3, PopFacts
  <1>5. Len(nodes) \in Nat
    BY LenProperties DEF GraphTypeOK
  <1> QED BY <1>2, <1>4, <1>5 DEF PopNode, GraphTypeOK, NodeIds

-----------------------------------------------------------------------------
(* The actions that touch neither the graph nor the stacks *)

LeafStep ==
  \/ ParseDetailLevel \/ ParseFill \/ ParseSphereOrCone \/ ParsePoly
  \/ ParseTexturedTriangle \/ ParseOther \/ ParseError \/ EndUnmatched
  \/ ParseDone \/ Flatten \/ LoadReturn

LEMMA LeafStepGraph ==
  ASSUME LeafStep
  PROVE  UNCHANGED <<scene, graphVars, xformVars>>
  BY DEF LeafStep, ParseDetailLevel, ParseFill, ParseSphereOrCone, ParsePoly,
         ParseTexturedTriangle, ParseOther, ParseError, EndUnmatched, ParseDone,
         Flatten, LoadReturn, Stays

LEMMA NextCases ==
  ASSUME Next
  PROVE  \/ Load \/ StaticXform \/ AnimatedXform \/ EndStatic \/ EndAnimated
         \/ (AtInclude /\ \E arg \in IncludeArgs : IncludeSeen(arg[1]))
         \/ (AtInclude /\ \E arg \in IncludeArgs : IncludeNew(arg[1], arg[2]))
         \/ (AtInclude /\ \E arg \in IncludeArgs : IncludeSkip(arg[1], arg[2]))
         \/ IncludeReturn \/ ParseMesh \/ LeafStep
  BY DEF Next, Include, LeafStep
-----------------------------------------------------------------------------
(* How many open transforms are static *)

LEMMA StaticsFinite ==
  ASSUME NEW types \in Seq({STATIC, ANIMATED})
  PROVE  IsFiniteSet(Statics(types)) /\ Cardinality(Statics(types)) \in Nat
  <1>1. Len(types) \in Nat /\ Statics(types) \in SUBSET (1..Len(types))
    BY LenProperties DEF Statics
  <1>2. IsFiniteSet(1..Len(types))
    BY <1>1, FS_Interval
  <1>3. IsFiniteSet(Statics(types))
    BY <1>1, <1>2, FS_Subset
  <1> QED BY <1>3, FS_CardinalityType

LEMMA StaticsPush ==
  ASSUME NEW types \in Seq({STATIC, ANIMATED}), NEW type \in {STATIC, ANIMATED}
  PROVE  Cardinality(Statics(Append(types, type)))
           = IF type = STATIC THEN Cardinality(Statics(types)) + 1
             ELSE Cardinality(Statics(types))
  <1> DEFINE more == Append(types, type)
  <1>1. PICK n \in Nat : n = Len(types)
    BY LenProperties
  <1>2. /\ DOMAIN more = 1..(n + 1) /\ DOMAIN types = 1..n
        /\ \A i \in 1..n : more[i] = types[i]
        /\ more[n + 1] = type
    BY <1>1, AppendProperties, LenProperties
  <1>3. CASE type = STATIC
    <2>1. Statics(more) = Statics(types) \cup {n + 1}
      BY <1>2, <1>3 DEF Statics
    <2>2. n + 1 \notin Statics(types)
      BY <1>2 DEF Statics
    <2> QED BY <1>3, <2>1, <2>2, StaticsFinite, FS_AddElement
  <1>4. CASE type # STATIC
    <2>1. Statics(more) = Statics(types)
      BY <1>2, <1>4 DEF Statics
    <2> QED BY <1>4, <2>1
  <1> QED BY <1>3, <1>4

LEMMA StaticsPop ==
  ASSUME NEW types \in Seq({STATIC, ANIMATED}), types # << >>
  PROVE  Cardinality(Statics(types))
           = IF Top(types) = STATIC THEN Cardinality(Statics(Pop(types))) + 1
             ELSE Cardinality(Statics(Pop(types)))
  <1>1. PICK n \in Nat \ {0} : n = Len(types)
    BY PopFacts
  <1>2. Pop(types) \in Seq({STATIC, ANIMATED}) /\ Len(Pop(types)) = n - 1
    BY <1>1, PopFacts
  <1>3. /\ DOMAIN types = 1..n /\ DOMAIN Pop(types) = 1..(n - 1)
        /\ \A i \in 1..(n - 1) : Pop(types)[i] = types[i]
        /\ Top(types) = types[n]
    BY <1>1, <1>2, PopFacts, LenProperties DEF Top
  <1>4. CASE Top(types) = STATIC
    <2>0. 1..n = 1..(n - 1) \cup {n}
      OBVIOUS
    <2>1. Statics(types) = Statics(Pop(types)) \cup {n}
      BY <2>0, <1>3, <1>4 DEF Statics
    <2>2. n \notin Statics(Pop(types))
      BY <1>3 DEF Statics
    <2> QED BY <1>2, <1>4, <2>1, <2>2, StaticsFinite, FS_AddElement
  <1>5. CASE Top(types) # STATIC
    <2>1. Statics(types) = Statics(Pop(types))
      BY <1>3, <1>5 DEF Statics
    <2> QED BY <1>5, <2>1
  <1> QED BY <1>4, <1>5
-----------------------------------------------------------------------------
(* The graph and its stacks, one lemma per kind of step.  StacksOK is what *)
(* each of them establishes of the next state.                             *)

StacksOK == GraphTypeOK /\ XformTypeOK /\ StacksInStep

LEMMA LoadStacks ==
  ASSUME IInv, Load
  PROVE  StacksOK' /\ Len(nodes) <= Len(nodes')
  <1> DEFINE root == NewNode("root", "root", Identity)
  <1>1. nodes = << >> /\ xformStack = << >> /\ xformTypeStack = << >> /\ reader = << >>
    BY DEF Load, IInv, IdleEmpty
  <1>2. root \in NodeRecord(1)
    BY EmptySeq, NewNodeType DEF Matrix, Identity
  <1>3. nodes' = <<root>> /\ Len(nodes') = 1 /\ nodes' \in Seq(NodeRecord(1))
    <2> HIDE DEF root
    <2> QED BY <1>2 DEF Load, root
  <1>4. GraphTypeOK'
    <2>1. nodeStack' \in Seq(1..1) /\ sceneNode' \in 0..1
      BY DEF Load
    <2>2. fileScopeStack' \in Seq(FileName \cup {"root"})
      BY DEF Load
    <2>3. /\ includefileToNodeMap' = includefileToNodeMap
          /\ DOMAIN includefileToNodeMap \subseteq FileName
          /\ includefileToNodeMap \in [DOMAIN includefileToNodeMap -> 1..0]
      BY <1>1 DEF Load, IInv, TypeOK, GraphTypeOK, NodeIds
    <2> HIDE DEF root
    <2> QED BY <1>3, <2>1, <2>2, <2>3 DEF GraphTypeOK, NodeIds
  <1>5. XformTypeOK'
    BY <1>1, EmptySeq DEF Load, XformTypeOK, Matrix, Identity
  <1>6. StacksInStep'
    <2>1. Statics(xformTypeStack') = {} /\ Cardinality({}) = 0
      BY <1>1, FS_EmptySet DEF Load, Statics
    <2>2. status' = "parse" => Len(reader') = 1
      BY <1>1 DEF Load
    <2>3. /\ Len(nodeStack') = 1 /\ Len(fileScopeStack') = 1 /\ Top(nodeStack') = sceneNode'
          /\ Len(xformTypeStack') = 0 /\ Len(xformStack') = 0
      BY <1>1 DEF Load, Top
    <2> QED BY <2>1, <2>2, <2>3 DEF StacksInStep, Top, Statics
  <1> QED BY <1>1, <1>3, <1>4, <1>5, <1>6 DEF StacksOK

(* a step that advances within the same file *)
LEMMA StacksKept ==
  ASSUME IInv, UNCHANGED <<scene, graphVars, xformVars>>,
         status' = "parse" => status = "parse" /\ Len(reader') = Len(reader)
  PROVE  StacksOK' /\ Len(nodes) <= Len(nodes')
  <1>1. Len(nodes) \in Nat
    BY LenProperties DEF IInv, TypeOK, GraphTypeOK
  <1>2. GraphTypeOK' /\ XformTypeOK'
    BY DEF IInv, TypeOK, GraphTypeOK, XformTypeOK, graphVars, xformVars, NodeIds
  <1>3. StacksInStep'
    BY DEF IInv, StacksInStep, graphVars, xformVars
  <1> QED BY <1>1, <1>2, <1>3 DEF StacksOK, graphVars

LEMMA StaticXformStacks ==
  ASSUME IInv, StaticXform
  PROVE  StacksOK' /\ Len(nodes) <= Len(nodes')
  <1>1. status = "parse" /\ status' = "parse" /\ GraphTypeOK /\ XformTypeOK /\ ReaderTypeOK
    BY DEF StaticXform, At, Stays, IInv, TypeOK
  <1>2. Tok \in Token /\ Tok.op = "xs"
    BY <1>1, ParseFacts, TokenType DEF IInv, StaticXform
  <1>3. Tok.xf \in Transform
    BY <1>2 DEF Token
  <1>4. <<Tok.xf>> \in Matrix
    BY <1>3 DEF Matrix
  <1>5. fileScopeStack' = fileScopeStack
    BY DEF StaticXform
  <1>6. /\ GraphTypeOK' /\ Len(nodes') = Len(nodes) + 1
        /\ Len(nodeStack') = Len(nodeStack) + 1 /\ Top(nodeStack') = sceneNode'
    BY <1>1, <1>4, <1>5, ParseFacts, PushNodeType DEF StaticXform, GraphTypeOK
  <1>7. /\ xformTypeStack' = Append(xformTypeStack, STATIC)
        /\ xformStack' = Append(xformStack, xformMatrix)
        /\ xformMatrix' = Append(xformMatrix, Tok.xf)
    BY DEF StaticXform, Times
  <1>8. /\ XformTypeOK'
        /\ Len(xformTypeStack') = Len(xformTypeStack) + 1
        /\ Len(xformStack') = Len(xformStack) + 1
    BY <1>1, <1>3, <1>7, PushFacts DEF XformTypeOK, Matrix
  <1>9. Cardinality(Statics(xformTypeStack')) = Cardinality(Statics(xformTypeStack)) + 1
    BY <1>1, <1>7, StaticsPush DEF XformTypeOK
  <1>10. Len(reader') = Len(reader)
    BY <1>1, ParseFacts, AdvanceType DEF StaticXform, Advance
  <1>11. Len(nodes) \in Nat /\ Len(nodeStack) \in Nat /\ Len(xformTypeStack) \in Nat
           /\ Len(fileScopeStack) \in Nat
    BY <1>1, LenProperties DEF GraphTypeOK, XformTypeOK
  <1>12. /\ Len(nodeStack) = Len(xformTypeStack) + Len(fileScopeStack)
         /\ Len(xformStack) = Cardinality(Statics(xformTypeStack))
         /\ Len(fileScopeStack) = Len(reader) /\ Len(reader) > 0
    BY <1>1 DEF IInv, StacksInStep
  <1>13. /\ Len(nodeStack') = Len(xformTypeStack') + Len(fileScopeStack')
         /\ Len(xformStack') = Cardinality(Statics(xformTypeStack'))
         /\ Len(fileScopeStack') = Len(reader') /\ Len(reader') > 0
    BY <1>5, <1>6, <1>8, <1>9, <1>10, <1>11, <1>12
  <1>14. StacksInStep'
    BY <1>6, <1>13 DEF StacksInStep, Top, Statics
  <1> QED BY <1>6, <1>8, <1>11, <1>14 DEF StacksOK

LEMMA AnimatedXformStacks ==
  ASSUME IInv, AnimatedXform
  PROVE  StacksOK' /\ Len(nodes) <= Len(nodes')
  <1>1. status = "parse" /\ status' = "parse" /\ GraphTypeOK /\ XformTypeOK /\ ReaderTypeOK
    BY DEF AnimatedXform, At, Stays, IInv, TypeOK
  <1>2. Tok \in Token /\ Tok.op = "x"
    BY <1>1, ParseFacts, TokenType DEF IInv, AnimatedXform
  <1>3. Tok.name \in XformName /\ Tok.name # "null"
    BY <1>2, NamesAssumption DEF Token
  <1>4. Identity \in Matrix
    BY EmptySeq DEF Matrix, Identity
  <1>5. fileScopeStack' = fileScopeStack /\ UNCHANGED <<xformMatrix, xformStack>>
    BY DEF AnimatedXform
  <1>6. /\ GraphTypeOK' /\ Len(nodes') = Len(nodes) + 1
        /\ Len(nodeStack') = Len(nodeStack) + 1 /\ Top(nodeStack') = sceneNode'
    BY <1>1, <1>3, <1>4, <1>5, ParseFacts, PushNodeType DEF AnimatedXform, GraphTypeOK
  <1>7. xformTypeStack' = Append(xformTypeStack, ANIMATED)
    BY DEF AnimatedXform
  <1>8. XformTypeOK' /\ Len(xformTypeStack') = Len(xformTypeStack) + 1
    BY <1>1, <1>5, <1>7, PushFacts DEF XformTypeOK
  <1>9. Cardinality(Statics(xformTypeStack')) = Cardinality(Statics(xformTypeStack))
    BY <1>1, <1>7, StaticsPush DEF XformTypeOK, STATIC, ANIMATED
  <1>10. Len(reader') = Len(reader)
    BY <1>1, ParseFacts, AdvanceType DEF AnimatedXform, Advance
  <1>11. Len(nodes) \in Nat /\ Len(nodeStack) \in Nat /\ Len(xformTypeStack) \in Nat
           /\ Len(fileScopeStack) \in Nat
    BY <1>1, LenProperties DEF GraphTypeOK, XformTypeOK
  <1>12. StacksInStep'
    BY <1>1, <1>5, <1>6, <1>8, <1>9, <1>10, <1>11 DEF IInv, StacksInStep, Top, Statics
  <1> QED BY <1>6, <1>8, <1>11, <1>12 DEF StacksOK

LEMMA EndStaticStacks ==
  ASSUME IInv, EndStatic
  PROVE  StacksOK' /\ Len(nodes) <= Len(nodes') /\ status' = "parse"
  <1>1. status = "parse" /\ GraphTypeOK /\ XformTypeOK /\ ReaderTypeOK
    BY DEF EndStatic, At, IInv, TypeOK
  <1>2. /\ Len(nodes) \in Nat /\ Len(nodeStack) \in Nat /\ Len(xformStack) \in Nat
        /\ Len(fileScopeStack) \in Nat /\ Len(reader) \in Nat
    BY <1>1, LenProperties DEF GraphTypeOK, XformTypeOK, ReaderTypeOK
  <1>3. /\ Len(nodeStack) = Len(xformTypeStack) + Len(fileScopeStack)
        /\ Len(xformStack) = Cardinality(Statics(xformTypeStack))
        /\ Len(fileScopeStack) = Len(reader) /\ Len(reader) > 0
    BY <1>1 DEF IInv, StacksInStep
  <1>4. xformTypeStack # << >> /\ Top(xformTypeStack) = STATIC
    BY DEF EndStatic
  <1>5. /\ Len(xformTypeStack) \in Nat \ {0}
        /\ Pop(xformTypeStack) \in Seq({STATIC, ANIMATED})
        /\ Len(Pop(xformTypeStack)) = Len(xformTypeStack) - 1
    BY <1>1, <1>4, PopFacts DEF XformTypeOK
  <1>6. /\ Cardinality(Statics(xformTypeStack)) = Cardinality(Statics(Pop(xformTypeStack))) + 1
        /\ Cardinality(Statics(Pop(xformTypeStack))) \in Nat
    BY <1>1, <1>4, <1>5, StaticsPop, StaticsFinite DEF XformTypeOK
  (* so the matrix stack is not empty: the exception is out of reach *)
  <1>7. xformStack # << >>
    BY <1>1, <1>3, <1>6, EmptySeq DEF XformTypeOK
  <1>8. /\ xformMatrix' = Top(xformStack) /\ xformStack' = Pop(xformStack)
        /\ xformTypeStack' = Pop(xformTypeStack)
        /\ PopNode /\ Advance /\ UNCHANGED <<status, fileScopeStack>>
    BY <1>7 DEF EndStatic
  <1>9. Len(nodeStack) >= 2
    BY <1>2, <1>3, <1>5
  <1>10. /\ GraphTypeOK' /\ nodes' = nodes
         /\ Len(nodeStack') = Len(nodeStack) - 1 /\ Top(nodeStack') = sceneNode'
    BY <1>1, <1>8, <1>9, PopNodeType DEF GraphTypeOK
  <1>11. XformTypeOK' /\ Len(xformStack') = Len(xformStack) - 1
    BY <1>1, <1>5, <1>7, <1>8, PopFacts DEF XformTypeOK, Matrix
  <1>12. Len(reader') = Len(reader)
    BY <1>1, <1>8, ParseFacts, AdvanceType DEF Advance
  <1>13. /\ Len(nodeStack') = Len(xformTypeStack') + Len(fileScopeStack')
         /\ Len(xformStack') = Cardinality(Statics(xformTypeStack'))
         /\ Len(fileScopeStack') = Len(reader') /\ Len(reader') > 0
    <2>1. Cardinality(Statics(xformTypeStack')) = Cardinality(Statics(Pop(xformTypeStack)))
      BY <1>8
    <2>2. Len(xformStack') = Cardinality(Statics(xformTypeStack'))
      BY <2>1, <1>3, <1>6, <1>11
    <2>3. Len(nodeStack') = Len(xformTypeStack') + Len(fileScopeStack')
      BY <1>2, <1>3, <1>5, <1>8, <1>10
    <2> QED BY <2>2, <2>3, <1>3, <1>8, <1>12
  <1>14. StacksInStep'
    BY <1>10, <1>13 DEF StacksInStep, Top, Statics
  <1> QED BY <1>1, <1>2, <1>8, <1>10, <1>11, <1>14 DEF StacksOK

LEMMA EndAnimatedStacks ==
  ASSUME IInv, EndAnimated
  PROVE  StacksOK' /\ Len(nodes) <= Len(nodes') /\ status' = "parse"
  <1>1. status = "parse" /\ status' = "parse" /\ GraphTypeOK /\ XformTypeOK /\ ReaderTypeOK
    BY DEF EndAnimated, At, Stays, IInv, TypeOK
  <1>2. /\ Len(nodes) \in Nat /\ Len(nodeStack) \in Nat
        /\ Len(fileScopeStack) \in Nat /\ Len(reader) \in Nat
    BY <1>1, LenProperties DEF GraphTypeOK, ReaderTypeOK
  <1>3. /\ Len(nodeStack) = Len(xformTypeStack) + Len(fileScopeStack)
        /\ Len(xformStack) = Cardinality(Statics(xformTypeStack))
        /\ Len(fileScopeStack) = Len(reader) /\ Len(reader) > 0
    BY <1>1 DEF IInv, StacksInStep
  <1>4. xformTypeStack # << >> /\ Top(xformTypeStack) # STATIC
    BY DEF EndAnimated, STATIC, ANIMATED
  <1>5. /\ Len(xformTypeStack) \in Nat \ {0}
        /\ Pop(xformTypeStack) \in Seq({STATIC, ANIMATED})
        /\ Len(Pop(xformTypeStack)) = Len(xformTypeStack) - 1
    BY <1>1, <1>4, PopFacts DEF XformTypeOK
  <1>6. Cardinality(Statics(xformTypeStack)) = Cardinality(Statics(Pop(xformTypeStack)))
    BY <1>1, <1>4, StaticsPop DEF XformTypeOK
  <1>7. /\ xformTypeStack' = Pop(xformTypeStack)
        /\ PopNode /\ Advance /\ UNCHANGED <<fileScopeStack, xformMatrix, xformStack>>
    BY DEF EndAnimated
  <1>8. Len(nodeStack) >= 2
    BY <1>2, <1>3, <1>5
  <1>9. /\ GraphTypeOK' /\ nodes' = nodes
        /\ Len(nodeStack') = Len(nodeStack) - 1 /\ Top(nodeStack') = sceneNode'
    BY <1>1, <1>7, <1>8, PopNodeType DEF GraphTypeOK
  <1>10. XformTypeOK'
    BY <1>1, <1>5, <1>7 DEF XformTypeOK
  <1>11. Len(reader') = Len(reader)
    BY <1>1, <1>7, ParseFacts, AdvanceType DEF Advance
  <1>12. /\ Len(nodeStack') = Len(xformTypeStack') + Len(fileScopeStack')
         /\ Len(xformStack') = Cardinality(Statics(xformTypeStack'))
         /\ Len(fileScopeStack') = Len(reader') /\ Len(reader') > 0
    BY <1>2, <1>3, <1>5, <1>6, <1>7, <1>9, <1>11
  <1>13. StacksInStep'
    BY <1>9, <1>12 DEF StacksInStep, Top, Statics
  <1> QED BY <1>1, <1>2, <1>9, <1>10, <1>13 DEF StacksOK

LEMMA IncludeSeenStacks ==
  ASSUME IInv, AtInclude, NEW f, IncludeSeen(f)
  PROVE  StacksOK' /\ Len(nodes) <= Len(nodes')
  <1>1. status = "parse" /\ GraphTypeOK /\ XformTypeOK /\ ReaderTypeOK
    BY DEF AtInclude, At, IInv, TypeOK
  <1>2. Len(nodes) \in Nat
    BY <1>1, LenProperties DEF GraphTypeOK
  <1>3. includefileToNodeMap[f] \in 1..Len(nodes)
    BY <1>1 DEF IncludeSeen, GraphTypeOK, NodeIds
  <1>4. nodes' \in Seq(NodeRecord(Len(nodes))) /\ Len(nodes') = Len(nodes)
    <2>1. sceneNode \in 1..Len(nodes) /\ nodes \in Seq(NodeRecord(Len(nodes)))
      BY <1>1, ParseFacts DEF GraphTypeOK, NodeIds
    <2>2. nodes' = AddChild(nodes, sceneNode, includefileToNodeMap[f])
      BY DEF IncludeSeen
    <2> QED BY <1>2, <1>3, <2>1, <2>2, AddChildFacts
  <1>5. GraphTypeOK'
    BY <1>1, <1>4 DEF IncludeSeen, GraphTypeOK, NodeIds
  <1>6. XformTypeOK'
    BY <1>1 DEF IncludeSeen, XformTypeOK, xformVars
  <1>7. Len(reader') = Len(reader)
    BY <1>1, ParseFacts, AdvanceType DEF IncludeSeen, Advance
  <1>8. StacksInStep'
    BY <1>1, <1>7 DEF IncludeSeen, IInv, StacksInStep, xformVars
  <1> QED BY <1>2, <1>4, <1>5, <1>6, <1>8 DEF StacksOK

LEMMA IncludeArgsType ==
  ASSUME IInv, AtInclude, NEW arg \in IncludeArgs
  PROVE  arg[1] \in FileName /\ arg[2] \in Detail
  <1>1. status = "parse" /\ ReaderTypeOK /\ scene \in Scenes
    BY DEF AtInclude, At, IInv, TypeOK
  <1>2. CASE At("i")
    <2>1. Tok \in Token /\ Tok.op = "i"
      BY <1>1, <1>2, ParseFacts, TokenType
    <2>2. Tok.file \in FileName /\ Tok.detail \in Detail
      BY <2>1 DEF Token
    <2> QED BY <2>1, <2>2 DEF IncludeArgs
  <1>3. CASE At("i?")
    <2>1. Tok.op # "i"
      BY <1>3 DEF At
    <2> QED BY <2>1 DEF IncludeArgs
  <1> QED BY <1>2, <1>3 DEF AtInclude

LEMMA IncludeNewStacks ==
  ASSUME IInv, AtInclude, NEW f \in FileName, NEW d, IncludeNew(f, d)
  PROVE  StacksOK' /\ Len(nodes) <= Len(nodes')
  <1>1. status = "parse" /\ GraphTypeOK /\ XformTypeOK /\ ReaderTypeOK
    BY DEF AtInclude, At, IInv, TypeOK
  <1>2. /\ Len(nodes) \in Nat /\ Len(nodeStack) \in Nat /\ Len(xformTypeStack) \in Nat
        /\ Len(fileScopeStack) \in Nat /\ Len(reader) \in Nat
    BY <1>1, LenProperties DEF GraphTypeOK, XformTypeOK, ReaderTypeOK
  <1>3. fileScopeStack' = Append(fileScopeStack, f) /\ PushNode("null", Identity, fileScopeStack')
    BY DEF IncludeNew
  <1>4. /\ fileScopeStack' \in Seq(FileName \cup {"root"})
        /\ Len(fileScopeStack') = Len(fileScopeStack) + 1
        /\ Top(fileScopeStack') = f
        /\ fileScopeStack' # << >>
    BY <1>1, <1>3, PushFacts, AppendProperties DEF GraphTypeOK
  <1>5. Identity \in Matrix
    BY EmptySeq DEF Matrix, Identity
  <1>6. /\ GraphTypeOK' /\ Len(nodes') = Len(nodes) + 1
        /\ Len(nodeStack') = Len(nodeStack) + 1 /\ Top(nodeStack') = sceneNode'
    BY <1>1, <1>3, <1>4, <1>5, ParseFacts, PushNodeType
  <1>7. XformTypeOK' /\ xformTypeStack' = xformTypeStack /\ xformStack' = xformStack
    BY <1>1 DEF IncludeNew, XformTypeOK, xformVars
  <1>8. status' = "parse" => Len(reader') = Len(reader) + 1
    <2>1. /\ Advanced \in Seq([file : DOMAIN scene, pos : Nat \ {0}])
          /\ Len(Advanced) = Len(reader)
      BY <1>1, ParseFacts, AdvanceType
    <2>2. CASE f \in DOMAIN scene
      <3>1. [file |-> f, pos |-> 1] \in [file : DOMAIN scene, pos : Nat \ {0}]
        BY <2>2
      <3>2. reader' = Append(Advanced, [file |-> f, pos |-> 1])
        BY <2>2 DEF IncludeNew
      <3> QED BY <2>1, <3>1, <3>2, AppendProperties
    <2>3. CASE f \notin DOMAIN scene
      BY <2>3 DEF IncludeNew
    <2> QED BY <2>2, <2>3
  <1>9. /\ Len(nodeStack) = Len(xformTypeStack) + Len(fileScopeStack)
        /\ Len(xformStack) = Cardinality(Statics(xformTypeStack))
        /\ Len(fileScopeStack) = Len(reader) /\ Len(reader) > 0
    BY <1>1 DEF IInv, StacksInStep
  <1>10. status' = "parse" =>
           /\ Len(nodeStack') = Len(xformTypeStack') + Len(fileScopeStack')
           /\ Len(xformStack') = Cardinality(Statics(xformTypeStack'))
           /\ Len(fileScopeStack') = Len(reader') /\ Len(reader') > 0
    BY <1>2, <1>4, <1>6, <1>7, <1>8, <1>9
  <1>11. StacksInStep'
    BY <1>6, <1>10 DEF StacksInStep, Top, Statics
  <1> QED BY <1>2, <1>6, <1>7, <1>11 DEF StacksOK

LEMMA IncludeReturnStacks ==
  ASSUME IInv, IncludeReturn
  PROVE  StacksOK' /\ Len(nodes) <= Len(nodes')
  <1>1. status = "parse" /\ GraphTypeOK /\ XformTypeOK /\ ReaderTypeOK
    BY DEF IncludeReturn, IInv, TypeOK
  <1>2. /\ Len(nodes) \in Nat /\ Len(nodeStack) \in Nat /\ Len(xformTypeStack) \in Nat
        /\ Len(fileScopeStack) \in Nat /\ Len(reader) \in Nat
    BY <1>1, LenProperties DEF GraphTypeOK, XformTypeOK, ReaderTypeOK
  <1>3. /\ Len(nodeStack) = Len(xformTypeStack) + Len(fileScopeStack)
        /\ Len(xformStack) = Cardinality(Statics(xformTypeStack))
        /\ Len(fileScopeStack) = Len(reader) /\ Len(reader) > 1
    BY <1>1 DEF IInv, StacksInStep, IncludeReturn
  <1>4. fileScopeStack # << >> /\ reader # << >> /\ Len(nodeStack) >= 2
    BY <1>2, <1>3, ParseFacts, <1>1
  <1>5. /\ fileScopeStack' \in Seq(FileName \cup {"root"})
        /\ Len(fileScopeStack') = Len(fileScopeStack) - 1
        /\ Len(reader') = Len(reader) - 1
    BY <1>1, <1>4, PopFacts DEF IncludeReturn, GraphTypeOK, ReaderTypeOK
  <1>6. /\ GraphTypeOK' /\ nodes' = nodes
        /\ Len(nodeStack') = Len(nodeStack) - 1 /\ Top(nodeStack') = sceneNode'
    BY <1>1, <1>4, <1>5, PopNodeType DEF IncludeReturn
  <1>7. XformTypeOK' /\ xformTypeStack' = xformTypeStack /\ xformStack' = xformStack
    BY <1>1 DEF IncludeReturn, XformTypeOK, xformVars
  <1>8. /\ Len(nodeStack') = Len(xformTypeStack') + Len(fileScopeStack')
        /\ Len(xformStack') = Cardinality(Statics(xformTypeStack'))
        /\ Len(fileScopeStack') = Len(reader') /\ Len(reader') > 0
    BY <1>2, <1>3, <1>5, <1>6, <1>7
  <1>9. StacksInStep'
    BY <1>6, <1>8 DEF StacksInStep, Top, Statics
  <1> QED BY <1>2, <1>6, <1>7, <1>9 DEF StacksOK

LEMMA ParseMeshStacks ==
  ASSUME IInv, ParseMesh
  PROVE  StacksOK' /\ Len(nodes) <= Len(nodes')
  <1>1. status = "parse" /\ GraphTypeOK /\ XformTypeOK /\ StateTypeOK /\ ReaderTypeOK
    BY DEF ParseMesh, At, IInv, TypeOK
  <1>2. Tok \in Token /\ Tok.op = "m"
    BY <1>1, ParseFacts, TokenType DEF IInv, ParseMesh
  <1>3. Tok.mesh \in Mesh /\ Tok.tex \in Texture \cup {None}
    BY <1>2 DEF Token
  <1>4. nodes' \in Seq(NodeRecord(Len(nodes))) /\ Len(nodes') = Len(nodes)
    <2> DEFINE node == [nodes[sceneNode] EXCEPT !.mesh = Tok.mesh, !.material = extMaterial,
                                                !.textureFilename = Tok.tex]
    <2>1. sceneNode \in 1..Len(nodes) /\ nodes \in Seq(NodeRecord(Len(nodes)))
      BY <1>1, ParseFacts DEF GraphTypeOK, NodeIds
    <2>2. nodes[sceneNode] \in NodeRecord(Len(nodes))
      BY <2>1, ElementOfSeq
    <2>3. node \in NodeRecord(Len(nodes))
      BY <1>1, <1>3, <2>2 DEF NodeRecord, StateTypeOK
    <2>4. nodes' = nodes \/ nodes' = [nodes EXCEPT ![sceneNode] = node]
      BY <2>1, <2>2 DEF ParseMesh, NodeRecord
    <2> HIDE DEF node
    <2> QED BY <2>1, <2>3, <2>4, ExceptSeq
  <1>5. GraphTypeOK'
    BY <1>1, <1>4 DEF ParseMesh, GraphTypeOK, NodeIds
  <1>6. XformTypeOK'
    BY <1>1 DEF ParseMesh, XformTypeOK, xformVars
  <1>7. Len(reader') = Len(reader)
    BY <1>1, ParseFacts, AdvanceType DEF ParseMesh, Advance
  <1>8. StacksInStep'
    BY <1>1, <1>7 DEF ParseMesh, IInv, StacksInStep, xformVars
  <1>9. Len(nodes) \in Nat
    BY <1>1, LenProperties DEF GraphTypeOK
  <1> QED BY <1>4, <1>5, <1>6, <1>8, <1>9 DEF StacksOK

LEMMA LeafStacks ==
  ASSUME IInv, LeafStep
  PROVE  StacksOK' /\ Len(nodes) <= Len(nodes')
  <1>1. UNCHANGED <<scene, graphVars, xformVars>>
    BY LeafStepGraph
  <1>2. ASSUME status' = "parse"
        PROVE  status = "parse" /\ (reader' = reader \/ reader' = Advanced)
    BY <1>2 DEF LeafStep, ParseDetailLevel, ParseFill, ParseSphereOrCone, ParsePoly,
           ParseTexturedTriangle, ParseOther, ParseError, EndUnmatched, ParseDone,
           Flatten, LoadReturn, Stays, At, Advance
  <1>3. status' = "parse" => status = "parse" /\ Len(reader') = Len(reader)
    BY <1>2, ParseFacts, AdvanceType DEF IInv, TypeOK
  <1> QED BY <1>1, <1>3, StacksKept

LEMMA IncludeSkipStacks ==
  ASSUME IInv, AtInclude, NEW f, NEW d, IncludeSkip(f, d)
  PROVE  StacksOK' /\ Len(nodes) <= Len(nodes')
  <1>1. UNCHANGED <<scene, graphVars, xformVars>> /\ status = "parse" /\ reader' = Advanced
    BY DEF IncludeSkip, AtInclude, At, Stays, Advance
  <1>2. Len(reader') = Len(reader)
    BY <1>1, ParseFacts, AdvanceType DEF IInv, TypeOK
  <1> QED BY <1>1, <1>2, StacksKept

(* every step keeps the graph well formed and the stacks in step *)
LEMMA StacksStep ==
  ASSUME IInv, [Next]_vars
  PROVE  StacksOK' /\ Len(nodes) <= Len(nodes')
  <1>1. CASE UNCHANGED vars
    BY <1>1, StacksKept DEF vars
  <1>2. CASE Next
    <2>1. CASE Load
      BY <2>1, LoadStacks
    <2>2. CASE StaticXform
      BY <2>2, StaticXformStacks
    <2>3. CASE AnimatedXform
      BY <2>3, AnimatedXformStacks
    <2>4. CASE EndStatic
      BY <2>4, EndStaticStacks
    <2>5. CASE EndAnimated
      BY <2>5, EndAnimatedStacks
    <2>6. CASE AtInclude /\ \E arg \in IncludeArgs : IncludeSeen(arg[1])
      BY <2>6, IncludeSeenStacks
    <2>7. CASE AtInclude /\ \E arg \in IncludeArgs : IncludeNew(arg[1], arg[2])
      BY <2>7, IncludeArgsType, IncludeNewStacks
    <2>8. CASE AtInclude /\ \E arg \in IncludeArgs : IncludeSkip(arg[1], arg[2])
      BY <2>8, IncludeSkipStacks
    <2>9. CASE IncludeReturn
      BY <2>9, IncludeReturnStacks
    <2>10. CASE ParseMesh
      BY <2>10, ParseMeshStacks
    <2>11. CASE LeafStep
      BY <2>11, LeafStacks
    <2> QED BY <1>2, <2>1, <2>2, <2>3, <2>4, <2>5, <2>6, <2>7, <2>8, <2>9, <2>10, <2>11, NextCases
  <1> QED BY <1>1, <1>2

-----------------------------------------------------------------------------
(* The other parts of the type invariant *)

LEMMA ReaderStep ==
  ASSUME IInv, [Next]_vars
  PROVE  scene' = scene /\ ReaderTypeOK' /\ IdleEmpty'
  <1> DEFINE R == [file : DOMAIN scene, pos : Nat \ {0}]
  <1> USE DEF IInv, TypeOK, ReaderTypeOK, IdleEmpty, Status
  <1>1. CASE UNCHANGED vars
    BY <1>1 DEF vars, graphVars, xformVars
  <1>2. CASE Load
    <2>1. Main \in DOMAIN scene => <<[file |-> Main, pos |-> 1]>> \in Seq(R)
      OBVIOUS
    <2> QED BY <1>2, <2>1 DEF Load
  <1>3. CASE StaticXform \/ AnimatedXform
    BY <1>3, ParseFacts, AdvanceType DEF StaticXform, AnimatedXform, At, Advance, Stays
  <1>4. CASE EndStatic
    BY <1>4, ParseFacts, AdvanceType DEF EndStatic, At, Advance
  <1>5. CASE EndAnimated
    BY <1>5, ParseFacts, AdvanceType DEF EndAnimated, At, Advance, Stays
  <1>6. ASSUME AtInclude, NEW f, IncludeSeen(f)
        PROVE  scene' = scene /\ ReaderTypeOK' /\ IdleEmpty'
    BY <1>6, ParseFacts, AdvanceType DEF IncludeSeen, AtInclude, At, Advance
  <1>7. ASSUME AtInclude, NEW f, NEW d, IncludeNew(f, d)
        PROVE  scene' = scene /\ ReaderTypeOK' /\ IdleEmpty'
    <2>1. status = "parse"
      BY <1>7 DEF AtInclude, At
    <2>2. Advanced \in Seq(R)
      BY <2>1, ParseFacts, AdvanceType
    <2>3. f \in DOMAIN scene => Append(Advanced, [file |-> f, pos |-> 1]) \in Seq(R)
      BY <2>2, AppendProperties
    <2> QED BY <1>7, <2>2, <2>3 DEF IncludeNew
  <1>8. ASSUME AtInclude, NEW f, NEW d, IncludeSkip(f, d)
        PROVE  scene' = scene /\ ReaderTypeOK' /\ IdleEmpty'
    BY <1>8, ParseFacts, AdvanceType DEF IncludeSkip, AtInclude, At, Advance, Stays
  <1>9. CASE IncludeReturn
    BY <1>9, ParseFacts, PopFacts DEF IncludeReturn, Stays
  <1>10. CASE ParseMesh
    BY <1>10, ParseFacts, AdvanceType DEF ParseMesh, At, Advance
  <1>11. CASE LeafStep
    <2>1. status \in {"parse", "flatten"} /\ scene' = scene
      BY <1>11 DEF LeafStep, ParseDetailLevel, ParseFill, ParseSphereOrCone, ParsePoly,
             ParseTexturedTriangle, ParseOther, ParseError, EndUnmatched, ParseDone,
             Flatten, LoadReturn, Stays, At
    <2>2. /\ status' \in {"parse", "flatten", "done", "failed", "undefined", "overflow"}
          /\ reader' = reader \/ (status = "parse" /\ reader' = Advanced)
      BY <1>11 DEF LeafStep, ParseDetailLevel, ParseFill, ParseSphereOrCone, ParsePoly,
             ParseTexturedTriangle, ParseOther, ParseError, EndUnmatched, ParseDone,
             Flatten, LoadReturn, Stays, At, Advance
    <2> QED BY <2>1, <2>2, ParseFacts, AdvanceType
  <1> QED BY <1>1, <1>2, <1>3, <1>4, <1>5, <1>6, <1>7, <1>8, <1>9, <1>10, <1>11, NextCases

LEMMA UnsignedType == ASSUME NEW n \in Int PROVE Unsigned(n) \in 0..(UIntRange - 1)
  BY NumbersAssumption DEF Unsigned

LEMMA StateStep ==
  ASSUME IInv, [Next]_vars
  PROVE  StateTypeOK'
  <1> USE DEF StateTypeOK
  <1>1. StateTypeOK /\ ReaderTypeOK /\ scene \in Scenes
    BY DEF IInv, TypeOK
  <1>2. ASSUME UNCHANGED <<stateVars, geomVars>>
        PROVE  StateTypeOK'
    BY <1>1, <1>2 DEF stateVars, geomVars
  <1>3. ASSUME NEW op, At(op)
        PROVE  Tok \in Token /\ Tok.op = op
    BY <1>1, <1>3, ParseFacts, TokenType DEF At
  <1>4. CASE Load
    BY <1>1, <1>4, NumbersAssumption DEF Load, geomVars
  <1>5. CASE ParseDetailLevel
    <2>0. Tok \in Token /\ Tok.op = "d"
      BY <1>3, <1>5 DEF ParseDetailLevel
    <2>1. Tok.detail \in Int
      BY <2>0, NumbersAssumption DEF Token
    <2> QED BY <1>1, <1>5, <2>1, UnsignedType DEF ParseDetailLevel, geomVars
  <1>6. CASE ParseFill
    <2>0. Tok \in Token /\ Tok.op = "f"
      BY <1>3, <1>6 DEF ParseFill
    <2>1. Tok.mat \in Material
      BY <2>0 DEF Token
    <2> QED BY <1>1, <1>6, <2>1 DEF ParseFill, geomVars
  <1>7. CASE ParseMesh
    <2>0. Tok \in Token /\ Tok.op = "m"
      BY <1>3, <1>7 DEF ParseMesh
    <2>1. Tok.tex \in Texture \cup {None}
      BY <2>0 DEF Token
    <2> QED BY <1>1, <1>7, <2>1 DEF ParseMesh, geomVars
  <1>8. CASE ParseSphereOrCone
    BY <1>1, <1>8, AppendProperties DEF ParseSphereOrCone, stateVars
  <1>9. CASE ParsePoly
    <2>1. Tok \in Token /\ Tok.op = "p"
      BY <1>3, <1>9 DEF ParsePoly
    <2>2. Tok.nverts \in Nat
      BY <2>1 DEF Token
    <2>3. PolyVerts \in Nat
      BY <2>2 DEF PolyVerts
    <2>4. UNCHANGED <<stateVars, batch, prims>> /\ (polys' = Append(polys, PolyVerts) \/ polys' = polys)
      BY <1>9 DEF ParsePoly
    <2>5. polys \in Seq(Nat)
      BY <1>1
    <2>6. Append(polys, PolyVerts) \in Seq(Nat)
      BY <2>3, <2>5, AppendProperties
    <2>7. polys' \in Seq(Nat)
      BY <2>4, <2>5, <2>6
    <2> QED BY <1>1, <2>4, <2>7 DEF stateVars
  <1>10. CASE ParseTexturedTriangle
    <2> DEFINE flush == Tok.tex # texture /\ batch # << >>
    <2> DEFINE kept == IF flush THEN << >> ELSE batch
    <2>0. Tok \in Token /\ Tok.op = "tt"
      BY <1>3, <1>10 DEF ParseTexturedTriangle
    <2>1. Tok.tex \in Texture
      BY <2>0 DEF Token
    <2>2. kept \in Seq(Texture) /\ 3 * Len(batch) \in Nat
      BY <1>1, EmptySeq, LenProperties
    <2>3. polys' \in Seq(Nat)
      BY <1>1, <1>10, <2>2, AppendProperties DEF ParseTexturedTriangle
    <2>4. batch' = Append(kept, Tok.tex)
      BY <1>10 DEF ParseTexturedTriangle
    <2>5. batch' \in Seq(Texture)
      <3> HIDE DEF kept
      <3> QED BY <2>1, <2>2, <2>4, AppendProperties
    <2> QED BY <1>1, <1>10, <2>1, <2>3, <2>5 DEF ParseTexturedTriangle
  <1>11. CASE UNCHANGED vars
    BY <1>2, <1>11 DEF vars
  <1>12. CASE AtInclude /\ \E arg \in IncludeArgs :
                IncludeSeen(arg[1]) \/ IncludeNew(arg[1], arg[2]) \/ IncludeSkip(arg[1], arg[2])
    BY <1>2, <1>12 DEF IncludeSeen, IncludeNew, IncludeSkip
  <1>13. CASE StaticXform \/ AnimatedXform \/ EndStatic \/ EndAnimated \/ EndUnmatched
                \/ IncludeReturn \/ ParseOther \/ ParseError \/ ParseDone \/ Flatten \/ LoadReturn
    BY <1>2, <1>13 DEF StaticXform, AnimatedXform, EndStatic, EndAnimated, EndUnmatched,
           IncludeReturn, ParseOther, ParseError, ParseDone, Flatten, LoadReturn
  <1> QED BY <1>4, <1>5, <1>6, <1>7, <1>8, <1>9, <1>10, <1>11, <1>12, <1>13
         DEF Next, Include

(* a pending call has the type of one, in a graph that has grown too *)
Call(n) == [node : 1..n, parentXform : Matrix, depth : Nat]

LEMMA CallsGrow ==
  ASSUME NEW k \in Nat, NEW l \in Nat, k <= l
  PROVE  Seq(Call(k)) \subseteq Seq(Call(l))
  <1>1. Call(k) \subseteq Call(l)
    BY DEF Call
  <1> QED BY <1>1, SeqMonotonic

LEMMA WalkStep ==
  ASSUME IInv, [Next]_vars
  PROVE  WalkTypeOK'
  <1> DEFINE Inst == [meshData : Mesh, material : Material \cup {None},
                      textureFilename : Texture \cup {None}, xform : Matrix]
  <1> DEFINE n == Len(nodes)
  <1>1. /\ nodes \in Seq(NodeRecord(n)) /\ n \in Nat
        /\ walk \in Seq(Call(n)) /\ flattened \in Seq(Inst)
    BY LenProperties DEF IInv, TypeOK, GraphTypeOK, WalkTypeOK, NodeIds, Call
  <1>2. Len(nodes') \in Nat /\ n <= Len(nodes') /\ walk \in Seq(Call(Len(nodes')))
    <2>1. Len(nodes') \in Nat /\ n <= Len(nodes')
      BY StacksStep, LenProperties DEF StacksOK, GraphTypeOK
    <2> QED BY <1>1, <2>1, CallsGrow
  <1>3. SUFFICES walk' \in Seq(Call(Len(nodes'))) /\ flattened' \in Seq(Inst)
    BY DEF WalkTypeOK, NodeIds, Call
  <1>4. CASE UNCHANGED walkVars
    BY <1>1, <1>2, <1>4 DEF walkVars
  <1>5. CASE ParseDone
    <2>1. nodes' = nodes /\ flattened' = flattened
      BY <1>5 DEF ParseDone, graphVars
    <2>2. n \in Nat \ {0}
      BY <1>5, ParseFacts DEF ParseDone
    <2>3. [node |-> 1, parentXform |-> Identity, depth |-> 1] \in Call(n)
      BY <2>2, EmptySeq DEF Call, Matrix, Identity
    <2> QED BY <1>1, <1>5, <2>1, <2>3 DEF ParseDone
  <1>6. CASE Flatten
    <2> DEFINE call == Head(walk)
               node == nodes[call.node]
               combined == Combined(call.parentXform, node.xform)
               calls == [i \in DOMAIN node.children |->
                           [node |-> node.children[i], parentXform |-> combined,
                            depth |-> call.depth + 1]]
    <2>1. nodes' = nodes
      BY <1>6 DEF Flatten, graphVars
    <2>2. call \in Call(n) /\ Tail(walk) \in Seq(Call(n))
      BY <1>1, <1>6, HeadTailProperties DEF Flatten
    <2>3. node \in NodeRecord(n)
      BY <1>1, <2>2, ElementOfSeq DEF Call
    <2>4. combined \in Matrix
      BY <2>2, <2>3, ConcatProperties DEF Call, NodeRecord, Matrix, Combined
    <2>5. calls \in Seq(Call(n))
      <3>1. node.children \in Seq(1..n) /\ call.depth + 1 \in Nat
        BY <2>2, <2>3 DEF Call, NodeRecord
      <3> DEFINE m == Len(node.children)
      <3>2. m \in Nat /\ DOMAIN node.children = 1..m
        BY <3>1, LenProperties
      <3>3. \A i \in 1..m : node.children[i] \in 1..n
        BY <3>1, ElementOfSeq
      <3>4. calls \in [1..m -> Call(n)]
        <4> HIDE DEF combined, m
        <4> QED BY <2>4, <3>1, <3>2, <3>3 DEF Call
      <3> QED BY <3>2, <3>4, SeqDef
    <2>6. calls \o Tail(walk) \in Seq(Call(n))
      <3> HIDE DEF calls
      <3> QED BY <2>2, <2>5, ConcatProperties
    <2>7. node.mesh # None => InstanceOf(call.node, combined) \in Inst
      <3> HIDE DEF combined
      <3> QED BY <2>3, <2>4 DEF InstanceOf, NodeRecord
    <2>8. node.mesh # None => Append(flattened, InstanceOf(call.node, combined)) \in Seq(Inst)
      <3> HIDE DEF call, node, combined, Inst
      <3> QED BY <1>1, <2>7, AppendProperties
    <2>9. \/ UNCHANGED walkVars
          \/ /\ walk' = calls \o Tail(walk)
             /\ flattened' = IF node.mesh = None THEN flattened
                             ELSE Append(flattened, InstanceOf(call.node, combined))
      BY <1>6 DEF Flatten
    <2> HIDE DEF calls, combined, node, call, Inst
    <2> QED BY <1>1, <1>4, <2>1, <2>6, <2>8, <2>9
  <1>7. CASE \/ StaticXform \/ AnimatedXform \/ EndStatic \/ EndAnimated \/ EndUnmatched
             \/ IncludeReturn \/ ParseDetailLevel \/ ParseFill \/ ParseMesh
             \/ ParseSphereOrCone \/ ParsePoly \/ ParseTexturedTriangle
             \/ ParseOther \/ ParseError \/ LoadReturn \/ Load
    BY <1>4, <1>7 DEF StaticXform, AnimatedXform, EndStatic, EndAnimated, EndUnmatched,
           IncludeReturn, ParseDetailLevel, ParseFill, ParseMesh, ParseSphereOrCone,
           ParsePoly, ParseTexturedTriangle, ParseOther, ParseError, LoadReturn, Load
  <1>8. CASE Include
    BY <1>4, <1>8 DEF Include, IncludeSeen, IncludeNew, IncludeSkip
  <1>9. CASE UNCHANGED vars
    BY <1>4, <1>9 DEF vars
  <1> QED BY <1>5, <1>6, <1>7, <1>8, <1>9 DEF Next

-----------------------------------------------------------------------------
(* How the scene graph grows: nodes are added, children are added, and     *)
(* nothing else of a node's place in the graph ever changes                *)

HasChild(ns, p, c) == \E k \in DOMAIN ns[p].children : ns[p].children[k] = c

NodesKept(ns, more) ==
  \A m \in 1..Len(ns) :
    /\ more[m].name = ns[m].name /\ more[m].fileScope = ns[m].fileScope
    /\ \A c : HasChild(ns, m, c) => HasChild(more, m, c)

(* what pushNode does, by name and scope of the new node *)
Grows(name, scope) ==
  LET new == Len(nodes) + 1 IN
  /\ Len(nodes') = new
  /\ nodes'[new].name = name /\ nodes'[new].fileScope = scope
  /\ HasChild(nodes', sceneNode, new)
  /\ nodeStack' = Append(nodeStack, new)
  /\ includefileToNodeMap' = Mapped(name, scope, new)
  /\ name = "null" => scope \notin DOMAIN includefileToNodeMap

Shrinks ==
  /\ Len(nodeStack) >= 2 /\ nodeStack' = Pop(nodeStack)
  /\ Len(nodes') = Len(nodes) /\ includefileToNodeMap' = includefileToNodeMap

StaysPut ==
  Len(nodes') = Len(nodes) /\ UNCHANGED <<nodeStack, includefileToNodeMap>>

LEMMA AddChildKeeps ==
  ASSUME NEW k \in Nat, NEW ns \in Seq(NodeRecord(k)), NEW p \in 1..Len(ns), NEW c \in 1..k
  PROVE  /\ Len(AddChild(ns, p, c)) = Len(ns)
         /\ NodesKept(ns, AddChild(ns, p, c))
         /\ HasChild(AddChild(ns, p, c), p, c)
  <1> DEFINE more == AddChild(ns, p, c)
  <1>1. /\ Len(more) = Len(ns)
        /\ \A n \in 1..Len(ns) :
             /\ n # p => more[n] = ns[n]
             /\ more[n].name = ns[n].name /\ more[n].fileScope = ns[n].fileScope
        /\ more[p].children = Append(ns[p].children, c)
    BY AddChildFacts
  <1>2. ns[p].children \in Seq(1..k)
    <2>1. ns[p] \in NodeRecord(k)
      BY ElementOfSeq
    <2> QED BY <2>1 DEF NodeRecord
  <1> HIDE DEF more
  <1>3. PICK l \in Nat : l = Len(ns[p].children)
    BY <1>2, LenProperties
  <1>4. /\ DOMAIN ns[p].children = 1..l /\ DOMAIN more[p].children = 1..(l + 1)
        /\ \A i \in 1..l : more[p].children[i] = ns[p].children[i]
        /\ more[p].children[l + 1] = c
    BY <1>1, <1>2, <1>3, AppendProperties, LenProperties
  <1>5. \A d : HasChild(ns, p, d) => HasChild(more, p, d)
    BY <1>4 DEF HasChild
  <1>6. HasChild(more, p, c)
    <2>1. l + 1 \in 1..(l + 1)
      BY <1>3
    <2> QED BY <1>4, <2>1 DEF HasChild
  <1>7. NodesKept(ns, more)
    <2> SUFFICES ASSUME NEW m \in 1..Len(ns), NEW d, HasChild(ns, m, d)
                 PROVE  HasChild(more, m, d)
      BY <1>1 DEF NodesKept
    <2> QED BY <1>1, <1>5 DEF HasChild
  <1> QED BY <1>1, <1>6, <1>7 DEF more

LEMMA PushNodeGrows ==
  ASSUME GraphTypeOK, sceneNode \in NodeIds,
         NEW name \in XformName \cup {"null", "static"}, NEW xform \in Matrix,
         NEW scopes \in Seq(FileName \cup {"root"}), scopes # << >>,
         name = "null" => Top(scopes) \notin DOMAIN includefileToNodeMap,
         PushNode(name, xform, scopes)
  PROVE  NodesKept(nodes, nodes') /\ Grows(name, Top(scopes))
  <1> DEFINE new == Len(nodes) + 1
  <1> DEFINE grown == AddChild(nodes, sceneNode, new)
  <1> DEFINE node == NewNode(name, Top(scopes), xform)
  <1>1. Len(nodes) \in Nat /\ new \in Nat /\ new \in 1..new /\ Len(nodes) <= new
    BY LenProperties DEF GraphTypeOK
  <1>2. nodes \in Seq(NodeRecord(new)) /\ sceneNode \in 1..Len(nodes)
    BY <1>1, NodesGrow DEF GraphTypeOK, NodeIds
  <1>3. /\ grown \in Seq(NodeRecord(new)) /\ Len(grown) = Len(nodes)
        /\ NodesKept(nodes, grown) /\ HasChild(grown, sceneNode, new)
    BY <1>1, <1>2, AddChildFacts, AddChildKeeps
  <1>4. node \in NodeRecord(new) /\ node.name = name /\ node.fileScope = Top(scopes)
    <2>1. Top(scopes) \in FileName \cup {"root"}
      BY PopFacts
    <2>2. node \in NodeRecord(new)
      BY <1>1, <2>1, NewNodeType
    <2> QED BY <2>2 DEF NewNode
  <1>5. /\ nodes' = Append(grown, node) /\ nodeStack' = Append(nodeStack, new)
        /\ includefileToNodeMap' = Mapped(name, Top(scopes), new)
    BY DEF PushNode
  <1> HIDE DEF grown, node
  <1>6. /\ Len(nodes') = new /\ nodes'[new] = node
        /\ \A m \in 1..Len(nodes) : nodes'[m] = grown[m]
    BY <1>3, <1>4, <1>5, AppendProperties DEF new
  <1>7. NodesKept(nodes, nodes')
    <2> SUFFICES ASSUME NEW m \in 1..Len(nodes)
                 PROVE  /\ nodes'[m].name = nodes[m].name
                        /\ nodes'[m].fileScope = nodes[m].fileScope
                        /\ \A c : HasChild(nodes, m, c) => HasChild(nodes', m, c)
      BY DEF NodesKept
    <2>1. nodes'[m] = grown[m]
      BY <1>6
    <2>2. \A c : HasChild(grown, m, c) => HasChild(nodes', m, c)
      BY <2>1 DEF HasChild
    <2> QED BY <1>3, <2>1, <2>2 DEF NodesKept
  <1>8. HasChild(nodes', sceneNode, new)
    BY <1>2, <1>3, <1>6 DEF HasChild
  <1> QED BY <1>4, <1>5, <1>6, <1>7, <1>8 DEF Grows, new

LEMMA GraphStaysPut ==
  ASSUME UNCHANGED graphVars
  PROVE  NodesKept(nodes, nodes') /\ StaysPut
  BY DEF graphVars, NodesKept, HasChild, StaysPut

LEMMA PopNodeShrinks ==
  ASSUME PopNode, Len(nodeStack) >= 2
  PROVE  NodesKept(nodes, nodes') /\ Shrinks
  BY DEF PopNode, NodesKept, HasChild, Shrinks

LEMMA OpenTransform ==
  ASSUME IInv, status = "parse", xformTypeStack # << >>
  PROVE  Len(nodeStack) >= 2
  <1>1. Len(xformTypeStack) \in Nat \ {0} /\ Len(fileScopeStack) \in Nat
    BY PopFacts, LenProperties DEF IInv, TypeOK, XformTypeOK, GraphTypeOK
  <1>2. Len(nodeStack) = Len(xformTypeStack) + Len(fileScopeStack) /\ Len(fileScopeStack) > 0
    BY DEF IInv, StacksInStep
  <1> QED BY <1>1, <1>2

(* The steps by what they do to the graph.  The first step makes the root. *)
GraphStep ==
  /\ status' = "parse" => status = "parse"
  /\ NodesKept(nodes, nodes')
  /\ StaysPut \/ (status = "parse" /\ (Shrinks \/ \E name, scope : Grows(name, scope)))

LEMMA GraphSteps ==
  ASSUME IInv, [Next]_vars
  PROVE  Load \/ GraphStep
  <1> USE DEF GraphStep
  <1>1. CASE UNCHANGED vars
    BY <1>1, GraphStaysPut DEF vars
  <1>2. CASE StaticXform
    <2>1. status = "parse" /\ GraphTypeOK /\ ReaderTypeOK
      BY <1>2 DEF StaticXform, At, IInv, TypeOK
    <2>2. Tok \in Token /\ Tok.op = "xs"
      BY <1>2, <2>1, ParseFacts, TokenType DEF IInv, StaticXform
    <2>3. <<Tok.xf>> \in Matrix
      <3>1. Tok.xf \in Transform
        BY <2>2 DEF Token
      <3> QED BY <3>1 DEF Matrix
    <2>4. NodesKept(nodes, nodes') /\ Grows("static", Top(fileScopeStack))
      BY <1>2, <2>1, <2>3, ParseFacts, PushNodeGrows DEF StaticXform, GraphTypeOK
    <2> QED BY <2>1, <2>4
  <1>3. CASE AnimatedXform
    <2>1. status = "parse" /\ GraphTypeOK /\ ReaderTypeOK
      BY <1>3 DEF AnimatedXform, At, IInv, TypeOK
    <2>2. Tok \in Token /\ Tok.op = "x"
      BY <1>3, <2>1, ParseFacts, TokenType DEF IInv, AnimatedXform
    <2>3. Tok.name \in XformName /\ Tok.name # "null" /\ Identity \in Matrix
      BY <2>2, NamesAssumption, EmptySeq DEF Token, Matrix, Identity
    <2>4. NodesKept(nodes, nodes') /\ Grows(Tok.name, Top(fileScopeStack))
      BY <1>3, <2>1, <2>3, ParseFacts, PushNodeGrows DEF AnimatedXform, GraphTypeOK
    <2> QED BY <2>1, <2>4
  <1>4. CASE EndStatic
    <2>1. status = "parse" /\ xformTypeStack # << >>
      BY <1>4 DEF EndStatic, At
    <2>2. CASE xformStack = << >>
      BY <1>4, <2>1, <2>2, GraphStaysPut DEF EndStatic
    <2>3. CASE xformStack # << >>
      BY <1>4, <2>1, <2>3, OpenTransform, PopNodeShrinks DEF EndStatic
    <2> QED BY <2>2, <2>3
  <1>5. CASE EndAnimated
    BY <1>5, OpenTransform, PopNodeShrinks DEF EndAnimated, At
  <1>6. CASE AtInclude /\ \E arg \in IncludeArgs : IncludeSeen(arg[1])
    <2>1. PICK f : IncludeSeen(f)
      BY <1>6
    <2>2. status = "parse" /\ GraphTypeOK
      BY <1>6 DEF AtInclude, At, IInv, TypeOK
    <2>3. Len(nodes) \in Nat /\ includefileToNodeMap[f] \in 1..Len(nodes)
      BY <2>1, <2>2, LenProperties DEF IncludeSeen, GraphTypeOK, NodeIds
    <2>4. sceneNode \in 1..Len(nodes) /\ nodes \in Seq(NodeRecord(Len(nodes)))
      BY <2>2, ParseFacts DEF GraphTypeOK, NodeIds
    <2>5. nodes' = AddChild(nodes, sceneNode, includefileToNodeMap[f])
            /\ UNCHANGED <<nodeStack, includefileToNodeMap>>
      BY <2>1 DEF IncludeSeen
    <2> QED BY <2>2, <2>3, <2>4, <2>5, AddChildKeeps DEF StaysPut
  <1>7. CASE AtInclude /\ \E arg \in IncludeArgs : IncludeNew(arg[1], arg[2])
    <2>1. PICK f \in FileName, d \in Detail : IncludeNew(f, d)
      BY <1>7, IncludeArgsType
    <2>2. status = "parse" /\ GraphTypeOK /\ Identity \in Matrix
      BY <1>7, EmptySeq DEF AtInclude, At, IInv, TypeOK, Matrix, Identity
    <2>3. /\ fileScopeStack' = Append(fileScopeStack, f)
          /\ PushNode("null", Identity, fileScopeStack')
          /\ f \notin DOMAIN includefileToNodeMap
      BY <2>1 DEF IncludeNew
    <2>4. /\ fileScopeStack' \in Seq(FileName \cup {"root"})
          /\ Top(fileScopeStack') = f /\ fileScopeStack' # << >>
      BY <2>2, <2>3, PushFacts, AppendProperties DEF GraphTypeOK
    <2>5. NodesKept(nodes, nodes') /\ Grows("null", f)
      BY <2>2, <2>3, <2>4, ParseFacts, PushNodeGrows
    <2> QED BY <2>2, <2>5
  <1>8. CASE AtInclude /\ \E arg \in IncludeArgs : IncludeSkip(arg[1], arg[2])
    BY <1>8, GraphStaysPut DEF IncludeSkip, AtInclude, At
  <1>9. CASE IncludeReturn
    <2>1. /\ Len(nodeStack) = Len(xformTypeStack) + Len(fileScopeStack)
          /\ Len(fileScopeStack) = Len(reader) /\ Len(reader) > 1
      BY <1>9 DEF IInv, StacksInStep, IncludeReturn
    <2>2. Len(xformTypeStack) \in Nat /\ Len(reader) \in Nat
      BY LenProperties DEF IInv, TypeOK, XformTypeOK, ReaderTypeOK
    <2> QED BY <1>9, <2>1, <2>2, PopNodeShrinks DEF IncludeReturn
  <1>10. CASE ParseMesh
    <2> DEFINE node == [nodes[sceneNode] EXCEPT !.mesh = Tok.mesh, !.material = extMaterial,
                                                !.textureFilename = Tok.tex]
    <2>1. status = "parse" /\ GraphTypeOK
      BY <1>10 DEF ParseMesh, At, IInv, TypeOK
    <2>2. sceneNode \in 1..Len(nodes) /\ nodes \in Seq(NodeRecord(Len(nodes)))
      BY <2>1, ParseFacts DEF GraphTypeOK, NodeIds
    <2>3. nodes[sceneNode] \in NodeRecord(Len(nodes))
      BY <2>2, ElementOfSeq
    <2>4. nodes' = nodes \/ nodes' = [nodes EXCEPT ![sceneNode] = node]
      BY <1>10, <2>2, <2>3 DEF ParseMesh, NodeRecord
    <2>5. /\ node.name = nodes[sceneNode].name /\ node.fileScope = nodes[sceneNode].fileScope
          /\ node.children = nodes[sceneNode].children
      BY <2>3 DEF NodeRecord
    <2> HIDE DEF node
    <2>6. Len(nodes') = Len(nodes) /\ NodesKept(nodes, nodes')
      BY <2>2, <2>4, <2>5, LenProperties DEF NodesKept, HasChild
    <2> QED BY <1>10, <2>1, <2>6 DEF ParseMesh, StaysPut
  <1>11. CASE LeafStep
    <2>1. status' = "parse" => status = "parse"
      BY <1>11 DEF LeafStep, ParseDetailLevel, ParseFill, ParseSphereOrCone, ParsePoly,
             ParseTexturedTriangle, ParseOther, ParseError, EndUnmatched, ParseDone,
             Flatten, LoadReturn, Stays, At
    <2> QED BY <1>11, <2>1, LeafStepGraph, GraphStaysPut
  <1> QED BY <1>1, <1>2, <1>3, <1>4, <1>5, <1>6, <1>7, <1>8, <1>9, <1>10, <1>11, NextCases

-----------------------------------------------------------------------------
(* The theorems *)

LEMMA InitIInv == Init => IInv
  <1> SUFFICES ASSUME Init PROVE IInv
    OBVIOUS
  <1> USE DEF Init
  <1>1. ReaderTypeOK
    BY EmptySeq DEF ReaderTypeOK, Status
  <1>2. GraphTypeOK
    BY EmptySeq DEF GraphTypeOK
  <1>3. XformTypeOK
    BY EmptySeq DEF XformTypeOK, Matrix, Identity
  <1>4. StateTypeOK
    BY EmptySeq, NumbersAssumption DEF StateTypeOK
  <1>5. WalkTypeOK
    BY EmptySeq DEF WalkTypeOK
  <1> QED BY <1>1, <1>2, <1>3, <1>4, <1>5 DEF IInv, TypeOK, IdleEmpty, StacksInStep

LEMMA NextIInv == IInv /\ [Next]_vars => IInv'
  <1> SUFFICES ASSUME IInv, [Next]_vars PROVE IInv'
    OBVIOUS
  <1>1. scene' = scene /\ ReaderTypeOK' /\ IdleEmpty'
    BY ReaderStep
  <1>2. GraphTypeOK' /\ XformTypeOK' /\ StacksInStep'
    BY StacksStep DEF StacksOK
  <1> QED BY <1>1, <1>2, StateStep, WalkStep DEF IInv, TypeOK

(* IInv holds of every state load() reaches *)
THEOREM InductiveInvariant == Spec => []IInv
  BY InitIInv, NextIInv, PTL DEF Spec

(* Every variable of the loader keeps its type: in particular every node   *)
(* id - a child link, an include map entry, a pending flatten call - is    *)
(* that of a node that exists, and only nodes with a mesh give instances.  *)
THEOREM TypeCorrect == Spec => []TypeOK
  <1>1. IInv => TypeOK
    BY DEF IInv
  <1> QED BY <1>1, InductiveInvariant, PTL

(* The node, matrix, transform-type and file-scope stacks keep step, for   *)
(* balanced and unbalanced scenes alike: pushes and pops of ParseXform and *)
(* parseInclude always pair up.                                            *)
THEOREM StacksAlwaysInStep == Spec => []StacksInStep
  <1>1. IInv => StacksInStep
    BY DEF IInv
  <1> QED BY <1>1, InductiveInvariant, PTL

(* ParseXform::end's error for an empty matrix stack is unreachable while  *)
(* a transform is open: a matched brace never ends the load.               *)
THEOREM BracesNeverFail == Spec => MatchedBraceNeverFails
  <1>1. IInv /\ [Next]_vars => [At("}") /\ xformTypeStack # << >> => status' = "parse"]_vars
    <2> SUFFICES ASSUME IInv, Next, At("}"), xformTypeStack # << >>
                 PROVE  status' = "parse"
      BY DEF vars
    <2>1. EndStatic \/ EndAnimated
      BY DEF Next, Load, StaticXform, AnimatedXform, EndUnmatched, Include, AtInclude,
             IncludeReturn, ParseDetailLevel, ParseFill, ParseMesh, ParseSphereOrCone,
             ParsePoly, ParseTexturedTriangle, ParseOther, ParseError, ParseDone,
             Flatten, LoadReturn, At
    <2> QED BY <2>1, EndStaticStacks, EndAnimatedStacks
  <1> QED BY <1>1, InductiveInvariant, PTL DEF Spec, MatchedBraceNeverFails

IsPath(ns, stack) ==
  /\ stack[1] = 1
  /\ \A k \in 1..(Len(stack) - 1) : HasChild(ns, stack[k], stack[k + 1])

(* The nodes on the stack are a path of the scene graph from its root on   *)
(* any input: what pushNode and popNode do never leaves a node on the      *)
(* stack that is not a child of the one below it.                          *)
THEOREM StackIsPath == Spec => []NodeStackIsPath
  <1> DEFINE Path == status = "parse" => IsPath(nodes, nodeStack)
  <1>1. Init => Path
    BY DEF Init
  <1>2. IInv /\ Path /\ [Next]_vars => Path'
    <2> SUFFICES ASSUME IInv, Path, [Next]_vars, status' = "parse"
                 PROVE  IsPath(nodes', nodeStack')
      OBVIOUS
    <2>1. CASE Load
      BY <2>1 DEF Load, IsPath
    <2>2. CASE GraphStep
      <3>1. status = "parse" /\ IsPath(nodes, nodeStack) /\ NodesKept(nodes, nodes')
        BY <2>2 DEF GraphStep
      <3>2. PICK n \in Nat \ {0} : n = Len(nodeStack)
        BY <3>1, ParseFacts, PopFacts DEF IInv, TypeOK, GraphTypeOK
      <3>3. \A k \in 1..n : nodeStack[k] \in 1..Len(nodes)
        BY <3>2, ElementOfSeq DEF IInv, TypeOK, GraphTypeOK, NodeIds
      <3>4. \A k \in 1..(n - 1) : HasChild(nodes', nodeStack[k], nodeStack[k + 1])
        <4> SUFFICES ASSUME NEW k \in 1..(n - 1)
                     PROVE  HasChild(nodes', nodeStack[k], nodeStack[k + 1])
          OBVIOUS
        <4>1. HasChild(nodes, nodeStack[k], nodeStack[k + 1]) /\ k \in 1..n
          BY <3>1, <3>2 DEF IsPath
        <4> QED BY <3>1, <3>3, <4>1 DEF NodesKept
      <3>5. CASE StaysPut
        BY <3>1, <3>2, <3>4, <3>5 DEF StaysPut, IsPath
      <3>6. CASE Shrinks
        <4>1. /\ Len(nodeStack') = n - 1 /\ n - 1 \in Nat \ {0}
              /\ \A k \in 1..(n - 1) : nodeStack'[k] = nodeStack[k]
          BY <3>1, <3>2, <3>6, ParseFacts, PopFacts DEF Shrinks, IInv, TypeOK, GraphTypeOK
        <4>2. \A k \in 1..((n - 1) - 1) : k \in 1..(n - 1) /\ k + 1 \in 1..(n - 1)
          BY <4>1
        <4> QED BY <3>1, <3>4, <4>1, <4>2 DEF IsPath
      <3>7. CASE \E name, scope : Grows(name, scope)
        <4> DEFINE new == Len(nodes) + 1
        <4>1. nodeStack' = Append(nodeStack, new) /\ HasChild(nodes', sceneNode, new)
          BY <3>7 DEF Grows
        <4>2. /\ Len(nodeStack') = n + 1 /\ nodeStack'[n + 1] = new
              /\ \A k \in 1..n : nodeStack'[k] = nodeStack[k]
          BY <3>2, <4>1, AppendProperties DEF IInv, TypeOK, GraphTypeOK
        <4>3. sceneNode = nodeStack[n]
          BY <3>1, <3>2, ParseFacts DEF Top
        <4> HIDE DEF new
        <4>4. \A k \in 1..n : k # n => k \in 1..(n - 1) /\ k + 1 \in 1..n
          BY <3>2
        <4>5. ASSUME NEW k \in 1..n
              PROVE  HasChild(nodes', nodeStack'[k], nodeStack'[k + 1])
          BY <3>4, <4>1, <4>2, <4>3, <4>4
        <4> QED BY <3>1, <3>2, <4>2, <4>5 DEF IsPath
      <3> QED BY <2>2, <3>5, <3>6, <3>7 DEF GraphStep
    <2> QED BY <2>1, <2>2, GraphSteps
  <1>3. Path => NodeStackIsPath
    BY DEF IsPath, HasChild, NodeStackIsPath
  <1> QED BY <1>1, <1>2, <1>3, InductiveInvariant, PTL DEF Spec

(* every included file's node is the one the include map leads to *)
SubtreesMapped ==
  /\ \A n \in NodeIds : nodes[n].name = "null" =>
       /\ nodes[n].fileScope \in DOMAIN includefileToNodeMap
       /\ includefileToNodeMap[nodes[n].fileScope] = n
  /\ \A f \in DOMAIN includefileToNodeMap :
       LET n == includefileToNodeMap[f] IN nodes[n].name = "null" /\ nodes[n].fileScope = f

(* However often a file is included, it has one subtree, the one the       *)
(* include map leads to: parseInclude parses it only when the map has no   *)
(* entry, and pushNode enters it before anything of the file is read.      *)
THEOREM OneSubtree == Spec => []OneSubtreePerFile
  <1>1. Init => SubtreesMapped
    BY DEF Init, SubtreesMapped, NodeIds
  <1>2. IInv /\ SubtreesMapped /\ [Next]_vars => SubtreesMapped'
    <2> SUFFICES ASSUME IInv, SubtreesMapped, [Next]_vars PROVE SubtreesMapped'
      OBVIOUS
    <2> DEFINE map == includefileToNodeMap
    <2>0. Len(nodes) \in Nat /\ map \in [DOMAIN map -> 1..Len(nodes)]
      BY LenProperties DEF IInv, TypeOK, GraphTypeOK, NodeIds
    <2>1. CASE Load
      <3>1. nodes = << >> /\ map' = map
        BY <2>1 DEF Load, IInv, IdleEmpty
      <3>2. DOMAIN map = {}
        <4>1. Len(nodes) = 0 /\ 1..0 = {}
          BY <3>1
        <4> QED BY <2>0, <4>1
      <3>3. Len(nodes') = 1 /\ nodes'[1].name = "root"
        BY <2>1 DEF Load, NewNode
      <3> QED BY <3>1, <3>2, <3>3 DEF SubtreesMapped, NodeIds
    <2>2. CASE GraphStep
      <3>1. /\ \A n \in 1..Len(nodes) : /\ nodes'[n].name = nodes[n].name
                                        /\ nodes'[n].fileScope = nodes[n].fileScope
        BY <2>2 DEF GraphStep, NodesKept
      <3>2. CASE Len(nodes') = Len(nodes) /\ map' = map
        BY <2>0, <3>1, <3>2 DEF SubtreesMapped, NodeIds
      <3>3. CASE \E name, scope : Grows(name, scope)
        <4> DEFINE new == Len(nodes) + 1
        <4>1. PICK name, scope : Grows(name, scope)
          BY <3>3
        <4>2. /\ 1..new = 1..Len(nodes) \cup {new} /\ new \notin 1..Len(nodes)
              /\ Len(nodes') = new
          BY <2>0, <4>1 DEF Grows
        <4>3. nodes'[new].name = name /\ nodes'[new].fileScope = scope
          BY <4>1 DEF Grows
        <4>4. CASE name = "null"
          <5>1. map' = Put(map, scope, new) /\ scope \notin DOMAIN map
            BY <4>1, <4>4 DEF Grows, Mapped
          <5>2. /\ DOMAIN map' = DOMAIN map \cup {scope} /\ map'[scope] = new
                /\ \A f \in DOMAIN map : map'[f] = map[f]
            BY <5>1 DEF Put
          <5> HIDE DEF new
          <5> QED BY <2>0, <3>1, <4>2, <4>3, <4>4, <5>1, <5>2 DEF SubtreesMapped, NodeIds
        <4>5. CASE name # "null"
          <5>1. map' = map
            BY <4>1, <4>5 DEF Grows, Mapped
          <5> HIDE DEF new
          <5> QED BY <2>0, <3>1, <4>2, <4>3, <4>5, <5>1 DEF SubtreesMapped, NodeIds
        <4> QED BY <4>4, <4>5
      <3> QED BY <2>2, <3>2, <3>3 DEF GraphStep, StaysPut, Shrinks
    <2> QED BY <2>1, <2>2, GraphSteps
  <1>3. IInv /\ SubtreesMapped => OneSubtreePerFile
    BY DEF SubtreesMapped, OneSubtreePerFile, NodeIds
  <1> QED BY <1>1, <1>2, <1>3, InductiveInvariant, PTL DEF Spec

-----------------------------------------------------------------------------
(* Counting braces *)

Closes(tok) == tok.op = "}"

LEMMA DepthFacts ==
  ASSUME NEW text \in Seq(Token), NEW i \in 1..Len(text)
  PROVE  /\ Depth(text, i) \in Int
         /\ Opens(text[i]) => Depth(text, i + 1) = Depth(text, i) + 1
         /\ Closes(text[i]) => Depth(text, i + 1) = Depth(text, i) - 1
         /\ ~Opens(text[i]) /\ ~Closes(text[i]) => Depth(text, i + 1) = Depth(text, i)
  <1> DEFINE Up(n) == {j \in 1..(n - 1) : Opens(text[j])}
             Down(n) == {j \in 1..(n - 1) : Closes(text[j])}
  <1>1. i \in Nat /\ 1..(i + 1 - 1) = 1..(i - 1) \cup {i} /\ i \notin 1..(i - 1)
    BY LenProperties
  <1>0. ~(Closes(text[i]) /\ Opens(text[i]))
    BY DEF Opens, Closes
  <1>7. \A n : Depth(text, n) = Cardinality(Up(n)) - Cardinality(Down(n))
    BY DEF Depth, Closes
  <1>2. /\ Opens(text[i]) => Up(i + 1) = Up(i) \cup {i}
        /\ ~Opens(text[i]) => Up(i + 1) = Up(i)
        /\ i \notin Up(i)
    <2>1. \A j : j \in Up(i + 1) <=> j \in Up(i) \/ (j = i /\ Opens(text[i]))
      BY <1>1
    <2>2. i \notin Up(i)
      BY <1>1
    <2> HIDE DEF Up
    <2> QED BY <2>1, <2>2
  <1>3. /\ Closes(text[i]) => Down(i + 1) = Down(i) \cup {i}
        /\ ~Closes(text[i]) => Down(i + 1) = Down(i)
        /\ i \notin Down(i)
    <2>1. \A j : j \in Down(i + 1) <=> j \in Down(i) \/ (j = i /\ Closes(text[i]))
      BY <1>1
    <2>2. i \notin Down(i)
      BY <1>1
    <2> HIDE DEF Down
    <2>3. Closes(text[i]) => Down(i + 1) = Down(i) \cup {i}
      BY <2>1
    <2>4. ~Closes(text[i]) => Down(i + 1) = Down(i)
      BY <2>1
    <2> QED BY <2>2, <2>3, <2>4
  <1>4. IsFiniteSet(1..(i - 1))
    BY <1>1, FS_Interval
  <1>5. IsFiniteSet(Up(i)) /\ IsFiniteSet(Down(i))
    BY <1>4, FS_Subset
  <1>6. Cardinality(Up(i)) \in Nat /\ Cardinality(Down(i)) \in Nat
    BY <1>5, FS_CardinalityType
  <1> HIDE DEF Up, Down
  <1>8. /\ Opens(text[i]) => Cardinality(Up(i + 1)) = Cardinality(Up(i)) + 1
        /\ ~Opens(text[i]) => Cardinality(Up(i + 1)) = Cardinality(Up(i))
    BY <1>2, <1>5, FS_AddElement
  <1>9. /\ Closes(text[i]) => Cardinality(Down(i + 1)) = Cardinality(Down(i)) + 1
        /\ ~Closes(text[i]) => Cardinality(Down(i + 1)) = Cardinality(Down(i))
    BY <1>3, <1>5, FS_AddElement
  <1>10. /\ Depth(text, i) \in Int
         /\ Opens(text[i]) => Depth(text, i + 1) = Depth(text, i) + 1
         /\ Closes(text[i]) => Depth(text, i + 1) = Depth(text, i) - 1
         /\ ~Opens(text[i]) /\ ~Closes(text[i]) => Depth(text, i + 1) = Depth(text, i)
    <2>1. /\ Depth(text, i) = Cardinality(Up(i)) - Cardinality(Down(i))
          /\ Depth(text, i + 1) = Cardinality(Up(i + 1)) - Cardinality(Down(i + 1))
      BY <1>7
    <2> QED BY <1>0, <1>6, <1>8, <1>9, <2>1
  <1> QED BY <1>10

LEMMA DepthStart ==
  ASSUME NEW text
  PROVE  Depth(text, 1) = 0
  <1>1. 1..(1 - 1) = {}
    OBVIOUS
  <1>2. {j \in 1..(1 - 1) : Opens(text[j])} = {} /\ {j \in 1..(1 - 1) : text[j].op = "}"} = {}
    BY <1>1
  <1> QED BY <1>2, FS_EmptySet DEF Depth

-----------------------------------------------------------------------------
(* The open files *)

LEMMA FrameFacts ==
  ASSUME IInv, status = "parse"
  PROVE  /\ Len(reader) \in Nat \ {0} /\ DOMAIN reader = 1..Len(reader)
         /\ \A r \in 1..Len(reader) : /\ reader[r].file \in DOMAIN scene
                                      /\ reader[r].file \in FileName
                                      /\ scene[reader[r].file] \in Seq(Token)
                                      /\ reader[r].pos \in Nat \ {0}
         /\ Frame = reader[Len(reader)]
         /\ ~AtEof => Frame.pos \in 1..Len(scene[Frame.file])
  <1>1. /\ reader \in Seq([file : DOMAIN scene, pos : Nat \ {0}]) /\ reader # << >>
    BY ParseFacts DEF IInv, TypeOK, ReaderTypeOK
  <1>2. Len(reader) \in Nat \ {0} /\ DOMAIN reader = 1..Len(reader)
    BY <1>1, PopFacts, LenProperties
  <1>3. \A r \in 1..Len(reader) : reader[r] \in [file : DOMAIN scene, pos : Nat \ {0}]
    BY <1>1, ElementOfSeq
  <1>4. DOMAIN scene \subseteq FileName /\ scene \in [DOMAIN scene -> Seq(Token)]
    BY ScenesAssumption DEF IInv
  <1>5. Frame = reader[Len(reader)]
    BY DEF Frame, Top
  <1>6. ~AtEof => Frame.pos \in 1..Len(scene[Frame.file])
    <2>1. Frame \in [file : DOMAIN scene, pos : Nat \ {0}]
      BY <1>2, <1>3, <1>5
    <2>2. Len(scene[Frame.file]) \in Nat
      BY <1>4, <2>1, LenProperties
    <2> QED BY <2>1, <2>2 DEF AtEof
  <1> QED BY <1>2, <1>3, <1>4, <1>5, <1>6

LEMMA AdvancedFacts ==
  ASSUME IInv, status = "parse"
  PROVE  LET n == Len(reader) IN
         /\ Advanced \in Seq([file : DOMAIN scene, pos : Nat \ {0}])
         /\ Len(Advanced) = n /\ DOMAIN Advanced = 1..n
         /\ \A r \in 1..n : /\ Advanced[r].file = reader[r].file
                            /\ r # n => Advanced[r] = reader[r]
         /\ Advanced[n].pos = reader[n].pos + 1
  <1> DEFINE n == Len(reader)
  <1>1. /\ Advanced \in Seq([file : DOMAIN scene, pos : Nat \ {0}]) /\ Len(Advanced) = n
    BY ParseFacts, AdvanceType DEF IInv, TypeOK
  <1>2. reader \in Seq([file : DOMAIN scene, pos : Nat \ {0}]) /\ n \in 1..n
    BY FrameFacts DEF IInv, TypeOK, ReaderTypeOK
  <1>3. \A r \in 1..n : reader[r] \in [file : DOMAIN scene, pos : Nat \ {0}]
    BY <1>2, ElementOfSeq
  <1>4. DOMAIN reader = 1..n
    BY <1>2, LenProperties
  <1>5. Advanced = [reader EXCEPT ![n] = [reader[n] EXCEPT !.pos = reader[n].pos + 1]]
    BY DEF Advanced
  <1> QED BY <1>1, <1>2, <1>3, <1>4, <1>5, LenProperties

(* no file is read past its end *)
PosInv ==
  status = "parse" =>
    \A r \in 1..Len(reader) : reader[r].pos <= Len(scene[reader[r].file]) + 1

(* The steps by what they do to the reader.  Only "i" opens a file. *)
ReaderMove ==
  \/ reader' = reader
  \/ ~AtEof /\ reader' = Advanced
  \/ ~AtEof /\ \E f \in FileName : reader' = Append(Advanced, [file |-> f, pos |-> 1])
                                    /\ f \in DOMAIN scene
  \/ AtEof /\ Len(reader) > 1 /\ reader' = Pop(reader)

LEMMA ReaderMoves ==
  ASSUME IInv, [Next]_vars, status' = "parse"
  PROVE  Load \/ (status = "parse" /\ ReaderMove)
  <1>1. CASE UNCHANGED vars
    BY <1>1 DEF vars, ReaderMove
  <1>2. CASE StaticXform \/ AnimatedXform \/ EndStatic \/ EndAnimated \/ EndUnmatched
    BY <1>2 DEF StaticXform, AnimatedXform, EndStatic, EndAnimated, EndUnmatched,
                At, Advance, Stays, ReaderMove
  <1>3. CASE ParseDetailLevel \/ ParseFill \/ ParseMesh \/ ParseSphereOrCone \/ ParsePoly
               \/ ParseTexturedTriangle \/ ParseOther \/ ParseError
    BY <1>3 DEF ParseDetailLevel, ParseFill, ParseMesh, ParseSphereOrCone, ParsePoly,
                ParseTexturedTriangle, ParseOther, ParseError, At, Advance, Stays, ReaderMove
  <1>4. CASE ParseDone \/ Flatten \/ LoadReturn
    BY <1>4 DEF ParseDone, Flatten, LoadReturn
  <1>5. CASE IncludeReturn
    BY <1>5 DEF IncludeReturn, Stays, ReaderMove
  <1>6. CASE Include
    <2>1. status = "parse" /\ ~AtEof
      BY <1>6 DEF Include, AtInclude, At
    <2>2. PICK f \in FileName, d \in Detail : IncludeSeen(f) \/ IncludeNew(f, d) \/ IncludeSkip(f, d)
      BY <1>6, IncludeArgsType DEF Include
    <2>3. CASE IncludeSeen(f) \/ IncludeSkip(f, d)
      BY <2>1, <2>3 DEF IncludeSeen, IncludeSkip, Advance, ReaderMove
    <2>4. CASE IncludeNew(f, d)
      <3>1. f \in DOMAIN scene /\ reader' = Append(Advanced, [file |-> f, pos |-> 1])
        BY <2>4 DEF IncludeNew
      <3> QED BY <2>1, <3>1 DEF ReaderMove
    <2> QED BY <2>2, <2>3, <2>4
  <1> QED BY <1>1, <1>2, <1>3, <1>4, <1>5, <1>6 DEF Next

LEMMA PosStep ==
  ASSUME IInv, PosInv, [Next]_vars
  PROVE  PosInv'
  <1> SUFFICES ASSUME status' = "parse", NEW r \in 1..Len(reader')
               PROVE  reader'[r].pos <= Len(scene'[reader'[r].file]) + 1
    BY DEF PosInv
  <1>0. scene' = scene
    BY ReaderStep
  <1>1. CASE Load
    <2>1. /\ reader' = <<[file |-> Main, pos |-> 1]>> /\ Main \in DOMAIN scene
      BY <1>1 DEF Load
    <2>2. Len(scene[Main]) \in Nat
      <3>1. scene[Main] \in Seq(Token)
        BY <2>1, ScenesAssumption DEF IInv
      <3> QED BY <3>1, LenProperties
    <2>3. r = 1
      BY <2>1
    <2> QED BY <1>0, <2>1, <2>2, <2>3
  <1>2. CASE status = "parse" /\ ReaderMove
    <2> DEFINE n == Len(reader)
               end(q) == Len(scene[q.file])
    <2>1. /\ n \in Nat \ {0} /\ Frame = reader[n]
          /\ \A k \in 1..n : end(reader[k]) \in Nat /\ reader[k].pos \in Nat
          /\ ~AtEof => reader[n].pos \in 1..end(reader[n])
      BY <1>2, FrameFacts, LenProperties
    <2>2. \A k \in 1..n : reader[k].pos <= end(reader[k]) + 1
      BY <1>2 DEF PosInv
    <2>3. /\ Len(Advanced) = n /\ Advanced \in Seq([file : DOMAIN scene, pos : Nat \ {0}])
          /\ \A k \in 1..n : /\ Advanced[k].file = reader[k].file
                             /\ k # n => Advanced[k] = reader[k]
          /\ Advanced[n].pos = reader[n].pos + 1
      BY <1>2, AdvancedFacts
    <2>4. ~AtEof => \A k \in 1..n : Advanced[k].pos <= end(Advanced[k]) + 1
      <3> SUFFICES ASSUME ~AtEof, NEW k \in 1..n
                   PROVE  Advanced[k].pos <= end(Advanced[k]) + 1
        OBVIOUS
      <3>1. CASE k = n
        <4>1. end(Advanced[n]) = end(reader[n])
          BY <2>1, <2>3
        <4>2. end(reader[n]) \in Nat /\ reader[n].pos \in 1..end(reader[n])
          BY <2>1
        <4>3. Advanced[n].pos = reader[n].pos + 1
          BY <2>3
        <4> HIDE DEF end, n
        <4> QED BY <3>1, <4>1, <4>2, <4>3
      <3>2. CASE k # n
        <4>1. Advanced[k] = reader[k]
          BY <2>3, <3>2
        <4> QED BY <2>2, <4>1
      <3> QED BY <3>1, <3>2
    <2>5. CASE reader' = reader
      BY <1>0, <2>2, <2>5
    <2>6. CASE ~AtEof /\ reader' = Advanced
      BY <1>0, <2>3, <2>4, <2>6
    <2>7. CASE ~AtEof /\ \E f \in FileName : reader' = Append(Advanced, [file |-> f, pos |-> 1])
                                              /\ f \in DOMAIN scene
      <3>1. PICK f \in DOMAIN scene : reader' = Append(Advanced, [file |-> f, pos |-> 1])
        BY <2>7
      <3>2. /\ Len(reader') = n + 1 /\ reader'[n + 1] = [file |-> f, pos |-> 1]
            /\ \A k \in 1..n : reader'[k] = Advanced[k]
        BY <2>3, <3>1, AppendProperties
      <3>3. Len(scene[f]) \in Nat
        <4>1. scene[f] \in Seq(Token)
          BY <3>1, ScenesAssumption DEF IInv
        <4> QED BY <4>1, LenProperties
      <3>4. r \in 1..n \/ r = n + 1
        BY <2>1, <3>2
      <3> QED BY <1>0, <2>4, <2>7, <3>2, <3>3, <3>4
    <2>8. CASE AtEof /\ Len(reader) > 1 /\ reader' = Pop(reader)
      <3>1. Len(reader') = n - 1 /\ \A k \in 1..(n - 1) : reader'[k] = reader[k]
        BY <1>2, <2>8, ParseFacts, PopFacts DEF IInv, TypeOK, ReaderTypeOK
      <3>2. r \in 1..(n - 1) /\ r \in 1..n
        BY <2>1, <3>1
      <3>3. reader'[r] = reader[r] /\ reader[r].pos <= end(reader[r]) + 1
        BY <2>2, <3>1, <3>2
      <3> QED BY <1>0, <3>3
    <2> QED BY <1>2, <2>5, <2>6, <2>7, <2>8 DEF ReaderMove
  <1> QED BY <1>1, <1>2, ReaderMoves

-----------------------------------------------------------------------------
(* How the active path was pushed *)

(* A record for every node of the stack: what ParseXform's stacks and      *)
(* matrix were when that node was the active one, how many transforms its  *)
(* file had open, and which of the open files it belongs to.               *)
Height ==
  [types : Seq({STATIC, ANIMATED}), stack : Seq(Matrix), matrix : Matrix,
   open : Nat, level : Nat \ {0}]

FileEntry(below, above) ==
  above = [types |-> below.types, stack |-> below.stack, matrix |-> below.matrix,
           open |-> 0, level |-> below.level + 1]

StaticEntry(below, above, t) ==
  above = [types |-> Append(below.types, STATIC), stack |-> Append(below.stack, below.matrix),
           matrix |-> Append(below.matrix, t),
           open |-> below.open + 1, level |-> below.level]

AnimatedEntry(below, above) ==
  above = [types |-> Append(below.types, ANIMATED), stack |-> below.stack,
           matrix |-> below.matrix,
           open |-> below.open + 1, level |-> below.level]

(* what pushing a node with this transform makes of the record below it *)
Entry(below, above, xform) ==
  \/ FileEntry(below, above) /\ xform = Identity
  \/ \E t \in Transform : StaticEntry(below, above, t) /\ xform = <<t>>
  \/ AnimatedEntry(below, above) /\ xform = Identity

FrameDepth(files, frames, r) == Depth(files[frames[r].file], frames[r].pos)

Ground == [types |-> << >>, stack |-> << >>, matrix |-> Identity, open |-> 0, level |-> 1]

IsTop(top) ==
  /\ top.types = xformTypeStack /\ top.stack = xformStack /\ top.matrix = xformMatrix
  /\ top.level = Len(reader) /\ top.open = FrameDepth(scene, reader, Len(reader))

History(G) ==
  /\ G \in Seq(Height) /\ Len(G) = Len(nodeStack)
  /\ G[1] = Ground /\ nodes[nodeStack[1]].xform = Identity
  /\ \A k \in 1..(Len(G) - 1) : Entry(G[k], G[k + 1], nodes[nodeStack[k + 1]].xform)
  /\ \A k \in 1..(Len(G) - 1) :
       G[k].level < G[k + 1].level => G[k].open = FrameDepth(scene, reader, G[k].level)
  /\ \A j, k \in 1..Len(G) : j <= k => G[j].level <= G[k].level
  /\ IsTop(Top(G))

HistoryInv == status = "parse" /\ Balanced(scene) => \E G : History(G)

LEMMA HistoryFacts ==
  ASSUME IInv, status = "parse", NEW G, History(G)
  PROVE  /\ Len(G) \in Nat \ {0} /\ G # << >>
         /\ Len(G) = Len(nodeStack) /\ Top(G) = G[Len(G)]
         /\ \A k \in 1..Len(G) : G[k] \in Height /\ nodeStack[k] \in 1..Len(nodes)
         /\ \A k \in 1..Len(G) : G[k].level <= Len(reader) /\ G[k].level \in Nat \ {0}
  <1>1. nodeStack \in Seq(NodeIds) /\ nodeStack # << >> /\ G \in Seq(Height)
          /\ Len(G) = Len(nodeStack)
    BY ParseFacts DEF IInv, TypeOK, GraphTypeOK, History
  <1>2. Len(nodeStack) \in Nat \ {0}
    BY <1>1, PopFacts
  <1>3. G # << >>
    BY <1>1, <1>2, EmptySeq
  <1>4. \A k \in 1..Len(G) : G[k] \in Height /\ nodeStack[k] \in 1..Len(nodes)
    BY <1>1, ElementOfSeq DEF NodeIds
  <1>5. Top(G) = G[Len(G)]
    BY DEF Top
  <1>6. \A k \in 1..Len(G) : G[k].level \in Nat \ {0}
    BY <1>4 DEF Height
  <1>7. \A k \in 1..Len(G) : G[k].level <= G[Len(G)].level
    BY <1>1, <1>2 DEF History
  <1> QED BY <1>1, <1>2, <1>3, <1>4, <1>5, <1>6, <1>7 DEF History, IsTop

(* the transform a node has is the one it was made with *)
XformsKept ==
  \A n \in 1..Len(nodes) : nodes'[n].xform = nodes[n].xform

LEMMA HistoryKept ==
  ASSUME IInv, status = "parse", NEW G, History(G), XformsKept,
         UNCHANGED <<nodeStack, xformVars>>, Len(reader') = Len(reader),
         \A r \in 1..Len(reader) : FrameDepth(scene', reader', r) = FrameDepth(scene, reader, r)
  PROVE  History(G)'
  <1>1. /\ Len(G) \in Nat \ {0} /\ Top(G) = G[Len(G)] /\ Len(G) = Len(nodeStack)
        /\ \A k \in 1..Len(G) : nodeStack[k] \in 1..Len(nodes)
        /\ \A k \in 1..Len(G) : G[k].level \in 1..Len(reader)
    <2>1. Len(reader) \in Nat
      BY FrameFacts
    <2>2. \A k \in 1..Len(G) : G[k].level <= Len(reader) /\ G[k].level \in Nat \ {0}
      BY HistoryFacts
    <2>3. \A k \in 1..Len(G) : nodeStack[k] \in 1..Len(nodes)
      BY HistoryFacts
    <2>4. Len(G) \in Nat \ {0} /\ Top(G) = G[Len(G)] /\ Len(G) = Len(nodeStack)
      BY HistoryFacts
    <2> QED BY <2>1, <2>2, <2>3, <2>4
  <1>2. \A k \in 1..Len(G) : nodes'[nodeStack'[k]].xform = nodes[nodeStack[k]].xform
    BY <1>1 DEF XformsKept
  <1>3. \A k \in 1..(Len(G) - 1) : k \in 1..Len(G) /\ k + 1 \in 1..Len(G)
    BY <1>1
  <1>4. \A k \in 1..(Len(G) - 1) : Entry(G[k], G[k + 1], nodes'[nodeStack'[k + 1]].xform)
    BY <1>2, <1>3 DEF History
  <1>5. \A k \in 1..(Len(G) - 1) :
          G[k].level < G[k + 1].level => G[k].open = FrameDepth(scene', reader', G[k].level)
    BY <1>1, <1>3 DEF History
  <1>6. IsTop(Top(G))'
    <2>1. Len(reader) \in 1..Len(reader)
      BY FrameFacts
    <2>2. FrameDepth(scene', reader', Len(reader')) = FrameDepth(scene, reader, Len(reader))
      BY <2>1
    <2> QED BY <2>2 DEF IsTop, History, xformVars
  <1>7. nodes'[nodeStack'[1]].xform = Identity
    BY <1>1, <1>2 DEF History
  <1> QED BY <1>1, <1>4, <1>5, <1>6, <1>7 DEF History

LEMMA HistoryPush ==
  ASSUME IInv, status = "parse", NEW G, History(G), XformsKept,
         NEW new, nodeStack' = Append(nodeStack, new),
         NEW above \in Height, NEW H \in Seq(Height),
         Len(H) = Len(G) + 1, H[Len(G) + 1] = above, \A k \in 1..Len(G) : H[k] = G[k], Entry(Top(G), above, nodes'[new].xform),
         IsTop(above)', Len(reader) <= Len(reader'),
         Len(reader) < Len(reader') =>
           FrameDepth(scene', reader', Len(reader)) = Top(G).open,
         \A r \in 1..(Len(reader) - 1) :
           FrameDepth(scene', reader', r) = FrameDepth(scene, reader, r)
  PROVE  History(H)'
  <1> DEFINE n == Len(G)
             m == Len(reader)
  <1>1. n \in Nat \ {0} /\ Top(G) = G[n] /\ n = Len(nodeStack)
    BY HistoryFacts
  <1>2. \A k \in 1..n : nodeStack[k] \in 1..Len(nodes)
    BY HistoryFacts
  <1>3. \A k \in 1..n : G[k].level <= m /\ G[k].level \in Nat \ {0} /\ G[k] \in Height
    BY HistoryFacts
  <1>4. m \in Nat \ {0}
    BY FrameFacts
  <1>5. /\ H \in Seq(Height) /\ Len(H) = n + 1 /\ H[n + 1] = above /\ Top(H) = above
        /\ \A k \in 1..n : H[k] = G[k]
    BY DEF Top
  <1>6. /\ Len(nodeStack') = n + 1 /\ nodeStack'[n + 1] = new
        /\ \A k \in 1..n : nodeStack'[k] = nodeStack[k]
    BY <1>1, AppendProperties DEF IInv, TypeOK, GraphTypeOK
  <1>7. \A k \in 1..n : nodes'[nodeStack'[k]].xform = nodes[nodeStack[k]].xform
    BY <1>2, <1>6 DEF XformsKept
  <1>8. G[n].level = m /\ above.level = Len(reader') /\ above.level \in Nat \ {0}
    BY <1>1 DEF History, IsTop, Height
  <1> HIDE DEF n, m
  <1>9. \A k \in 1..n : Entry(H[k], H[k + 1], nodes'[nodeStack'[k + 1]].xform)
    <2> SUFFICES ASSUME NEW k \in 1..n
                 PROVE  Entry(H[k], H[k + 1], nodes'[nodeStack'[k + 1]].xform)
      OBVIOUS
    <2>1. CASE k = n
      BY <1>1, <1>5, <1>6, <2>1
    <2>2. CASE k # n
      <3>1. k \in 1..(n - 1) /\ k + 1 \in 1..n
        BY <1>1, <2>2
      <3>2. Entry(G[k], G[k + 1], nodes[nodeStack[k + 1]].xform)
        BY <3>1 DEF History, n
      <3> QED BY <1>5, <1>7, <3>1, <3>2
    <2> QED BY <2>1, <2>2
  <1>10. \A k \in 1..n :
           H[k].level < H[k + 1].level => H[k].open = FrameDepth(scene', reader', H[k].level)
    <2> SUFFICES ASSUME NEW k \in 1..n, H[k].level < H[k + 1].level
                 PROVE  H[k].open = FrameDepth(scene', reader', H[k].level)
      OBVIOUS
    <2>1. CASE k = n
      <3>1. H[n] = Top(G) /\ H[n].level = m /\ H[n + 1].level = Len(reader')
        BY <1>1, <1>5, <1>8
      <3> QED BY <2>1, <3>1 DEF m
    <2>2. CASE k # n
      <3>1. k \in 1..(n - 1) /\ k \in 1..n /\ k + 1 \in 1..n
        BY <1>1, <2>2
      <3>2. G[k].level < G[k + 1].level => G[k].open = FrameDepth(scene, reader, G[k].level)
        BY <3>1 DEF History, n
      <3>3. H[k] = G[k] /\ H[k + 1] = G[k + 1]
        BY <1>5, <3>1
      <3>4. G[k].level \in 1..(m - 1)
        BY <1>3, <1>4, <3>1, <3>3
      <3> QED BY <3>2, <3>3, <3>4 DEF m
    <2> QED BY <2>1, <2>2
  <1>11. \A j, k \in 1..(n + 1) : j <= k => H[j].level <= H[k].level
    <2> SUFFICES ASSUME NEW j \in 1..(n + 1), NEW k \in 1..(n + 1), j <= k
                 PROVE  H[j].level <= H[k].level
      OBVIOUS
    <2>1. CASE k \in 1..n
      <3>1. j \in 1..n
        BY <1>1, <2>1
      <3> QED BY <1>5, <2>1, <3>1 DEF History, n
    <2>2. CASE k = n + 1 /\ j \in 1..n
      <3>1. H[j].level <= m /\ m <= Len(reader') /\ H[k].level = Len(reader')
               /\ H[j].level \in Nat /\ H[k].level \in Nat
        BY <1>3, <1>5, <1>8, <2>2 DEF m
      <3> QED BY <1>4, <3>1
    <2>3. CASE k = n + 1 /\ j = n + 1
      BY <1>5, <1>8, <2>3
    <2> QED BY <1>1, <2>1, <2>2, <2>3
  <1>12. H[1] = Ground /\ nodes'[nodeStack'[1]].xform = Identity
    BY <1>1, <1>5, <1>7 DEF History
  <1>13. n + 1 - 1 = n
    BY <1>1
  <1>14. IsTop(Top(H))'
    BY <1>5
  <1> QED BY <1>5, <1>6, <1>9, <1>10, <1>11, <1>12, <1>13, <1>14 DEF History, n

LEMMA HistoryPop ==
  ASSUME IInv, status = "parse", NEW G, History(G), Len(G) >= 2, XformsKept,
         nodeStack' = Pop(nodeStack), IsTop(G[Len(G) - 1])',
         \A r \in 1..(Len(reader') - 1) :
           FrameDepth(scene', reader', r) = FrameDepth(scene, reader, r)
  PROVE  History(Pop(G))'
  <1> DEFINE n == Len(G)
             H == Pop(G)
             m == Len(reader')
  <1>1. n \in Nat \ {0, 1} /\ n = Len(nodeStack) /\ G # << >>
    BY HistoryFacts
  <1>2. \A k \in 1..n : nodeStack[k] \in 1..Len(nodes) /\ G[k].level \in Nat \ {0}
    BY HistoryFacts
  <1>3. /\ H \in Seq(Height) /\ Len(H) = n - 1 /\ Top(H) = G[n - 1]
        /\ \A k \in 1..(n - 1) : H[k] = G[k]
    <2>1. /\ H \in Seq(Height) /\ Len(H) = n - 1
          /\ \A k \in 1..(n - 1) : H[k] = G[k]
      BY <1>1, PopFacts DEF History
    <2>2. Top(H) = H[n - 1]
      BY <2>1 DEF Top
    <2> HIDE DEF H
    <2> QED BY <1>1, <2>1, <2>2
  <1>4. /\ Len(nodeStack') = n - 1
        /\ \A k \in 1..(n - 1) : nodeStack'[k] = nodeStack[k]
    BY <1>1, PopFacts, ParseFacts DEF IInv, TypeOK, GraphTypeOK
  <1>5. \A k \in 1..(n - 1) : nodes'[nodeStack'[k]].xform = nodes[nodeStack[k]].xform
    BY <1>1, <1>2, <1>4 DEF XformsKept
  <1>6. G[n - 1].level = m /\ m \in Nat \ {0}
    BY <1>1, <1>2 DEF IsTop
  <1> HIDE DEF H, n, m
  <1>7. \A k \in 1..(n - 2) : Entry(H[k], H[k + 1], nodes'[nodeStack'[k + 1]].xform)
    <2> SUFFICES ASSUME NEW k \in 1..(n - 2)
                 PROVE  Entry(H[k], H[k + 1], nodes'[nodeStack'[k + 1]].xform)
      OBVIOUS
    <2>1. k \in 1..(n - 1) /\ k + 1 \in 1..(n - 1)
      BY <1>1
    <2>2. Entry(G[k], G[k + 1], nodes[nodeStack[k + 1]].xform)
      BY <2>1 DEF History, n
    <2> QED BY <1>3, <1>5, <2>1, <2>2
  <1>8. \A k \in 1..(n - 2) :
          H[k].level < H[k + 1].level => H[k].open = FrameDepth(scene', reader', H[k].level)
    <2> SUFFICES ASSUME NEW k \in 1..(n - 2), H[k].level < H[k + 1].level
                 PROVE  H[k].open = FrameDepth(scene', reader', H[k].level)
      OBVIOUS
    <2>1. k \in 1..n /\ k \in 1..(n - 1) /\ k + 1 \in 1..(n - 1) /\ k + 1 \in 1..n /\ n - 1 \in 1..n
      BY <1>1
    <2>2. H[k] = G[k] /\ H[k + 1] = G[k + 1]
      BY <1>3, <2>1
    <2>3. G[k].level < G[k + 1].level => G[k].open = FrameDepth(scene, reader, G[k].level)
      BY <2>1 DEF History, n
    <2>4. G[k + 1].level <= G[n - 1].level
      BY <1>1, <2>1 DEF History, n
    <2>5. G[k].level \in Nat \ {0} /\ G[k + 1].level \in Nat
      BY <1>2, <2>1
    <2>6. G[k].level \in 1..(m - 1)
      BY <1>6, <2>2, <2>4, <2>5
    <2> QED BY <2>2, <2>3, <2>6 DEF m
  <1>9. \A j, k \in 1..(n - 1) : j <= k => H[j].level <= H[k].level
    <2> SUFFICES ASSUME NEW j \in 1..(n - 1), NEW k \in 1..(n - 1), j <= k
                 PROVE  H[j].level <= H[k].level
      OBVIOUS
    <2>1. j \in 1..n /\ k \in 1..n
      BY <1>1
    <2> QED BY <1>3, <2>1 DEF History, n
  <1>10. H[1] = Ground /\ nodes'[nodeStack'[1]].xform = Identity
    <2>1. 1 \in 1..(n - 1)
      BY <1>1
    <2> QED BY <1>3, <1>5, <2>1 DEF History
  <1>11. n - 1 - 1 = n - 2
    BY <1>1
  <1>12. IsTop(Top(H))'
    BY <1>3 DEF IsTop, n
  <1> QED BY <1>3, <1>4, <1>7, <1>8, <1>9, <1>10, <1>11, <1>12 DEF History, H

-----------------------------------------------------------------------------
(* What the steps do to nodes: transforms stay, and at most one link comes *)

NewEdge(ns, more, p, c) ==
  \A m \in 1..Len(more) : \A d :
    HasChild(more, m, d) => (m \in 1..Len(ns) /\ HasChild(ns, m, d)) \/ (m = p /\ d = c)

LEMMA AddChildEdge ==
  ASSUME NEW k \in Nat, NEW ns \in Seq(NodeRecord(k)), NEW p \in 1..Len(ns), NEW c \in 1..k
  PROVE  NewEdge(ns, AddChild(ns, p, c), p, c)
  <1> DEFINE more == AddChild(ns, p, c)
  <1>1. /\ Len(more) = Len(ns)
        /\ \A n \in 1..Len(ns) : n # p => more[n] = ns[n]
        /\ more[p].children = Append(ns[p].children, c)
    BY AddChildFacts
  <1>2. ns[p].children \in Seq(1..k)
    <2>1. ns[p] \in NodeRecord(k)
      BY ElementOfSeq
    <2> QED BY <2>1 DEF NodeRecord
  <1> HIDE DEF more
  <1>3. PICK l \in Nat : l = Len(ns[p].children)
    BY <1>2, LenProperties
  <1>4. /\ DOMAIN ns[p].children = 1..l /\ DOMAIN more[p].children = 1..(l + 1)
        /\ \A i \in 1..l : more[p].children[i] = ns[p].children[i]
        /\ more[p].children[l + 1] = c
    BY <1>1, <1>2, <1>3, AppendProperties, LenProperties
  <1>5. \A d : HasChild(more, p, d) => HasChild(ns, p, d) \/ d = c
    <2> SUFFICES ASSUME NEW d, HasChild(more, p, d) PROVE HasChild(ns, p, d) \/ d = c
      OBVIOUS
    <2>1. PICK i \in 1..(l + 1) : more[p].children[i] = d
      BY <1>4 DEF HasChild
    <2>2. i \in 1..l \/ i = l + 1
      BY <1>3
    <2> QED BY <1>4, <2>1, <2>2 DEF HasChild
  <1>6. NewEdge(ns, more, p, c)
    <2> SUFFICES ASSUME NEW m \in 1..Len(ns), NEW d, HasChild(more, m, d)
                 PROVE  HasChild(ns, m, d) \/ (m = p /\ d = c)
      BY <1>1 DEF NewEdge
    <2>1. m # p => HasChild(ns, m, d)
      BY <1>1 DEF HasChild
    <2> QED BY <1>5, <2>1
  <1> QED BY <1>6 DEF more

LEMMA PushNodeShape ==
  ASSUME GraphTypeOK, sceneNode \in NodeIds,
         NEW name \in XformName \cup {"null", "static"}, NEW xform \in Matrix,
         NEW scopes \in Seq(FileName \cup {"root"}), scopes # << >>,
         PushNode(name, xform, scopes)
  PROVE  /\ XformsKept /\ nodes'[Len(nodes) + 1].xform = xform
         /\ NewEdge(nodes, nodes', sceneNode, Len(nodes) + 1)
         /\ Len(nodes') = Len(nodes) + 1
         /\ nodeStack' = Append(nodeStack, Len(nodes) + 1)
  <1> DEFINE new == Len(nodes) + 1
  <1> DEFINE grown == AddChild(nodes, sceneNode, new)
  <1> DEFINE node == NewNode(name, Top(scopes), xform)
  <1>1. Len(nodes) \in Nat /\ new \in Nat /\ new \in 1..new /\ Len(nodes) <= new
    BY LenProperties DEF GraphTypeOK
  <1>2. nodes \in Seq(NodeRecord(new)) /\ sceneNode \in 1..Len(nodes)
    BY <1>1, NodesGrow DEF GraphTypeOK, NodeIds
  <1>3. /\ grown \in Seq(NodeRecord(new)) /\ Len(grown) = Len(nodes)
        /\ \A m \in 1..Len(nodes) : grown[m].xform = nodes[m].xform
    BY <1>1, <1>2, AddChildFacts
  <1>4. node \in NodeRecord(new) /\ node.xform = xform /\ node.children = << >>
    <2>1. Top(scopes) \in FileName \cup {"root"}
      BY PopFacts
    <2>2. node \in NodeRecord(new)
      BY <1>1, <2>1, NewNodeType
    <2> QED BY <2>2 DEF NewNode
  <1>5. nodes' = Append(grown, node) /\ nodeStack' = Append(nodeStack, new)
    BY DEF PushNode
  <1>6. NewEdge(nodes, grown, sceneNode, new)
    BY <1>1, <1>2, AddChildEdge
  <1> HIDE DEF grown, node
  <1>7. /\ Len(nodes') = new /\ nodes'[new] = node
        /\ \A m \in 1..Len(nodes) : nodes'[m] = grown[m]
    BY <1>3, <1>4, <1>5, AppendProperties DEF new
  <1>8. XformsKept
    BY <1>3, <1>7 DEF XformsKept
  <1>9. NewEdge(nodes, nodes', sceneNode, new)
    <2> SUFFICES ASSUME NEW m \in 1..new, NEW d, HasChild(nodes', m, d)
                 PROVE  (m \in 1..Len(nodes) /\ HasChild(nodes, m, d)) \/ (m = sceneNode /\ d = new)
      BY <1>7 DEF NewEdge
    <2>1. CASE m \in 1..Len(nodes)
      <3>1. HasChild(grown, m, d)
        BY <1>7, <2>1 DEF HasChild
      <3> QED BY <1>3, <1>6, <2>1, <3>1 DEF NewEdge
    <2>2. CASE m = new
      <3>1. nodes'[m].children = << >>
        BY <1>4, <1>7, <2>2
      <3>2. DOMAIN nodes'[m].children = {}
        BY <3>1
      <3> QED BY <3>2 DEF HasChild
    <2> QED BY <1>1, <2>1, <2>2
  <1> QED BY <1>4, <1>5, <1>7, <1>8, <1>9 DEF new

LEMMA TokDepth ==
  ASSUME IInv, status = "parse", ~AtEof, scene' = scene,
         NEW r, r = Len(reader), reader'[r] = Advanced[r]
  PROVE  /\ Frame.file \in DOMAIN scene /\ Frame.pos \in 1..Len(scene[Frame.file])
         /\ FrameDepth(scene', reader', r) = Depth(scene[Frame.file], Frame.pos + 1)
         /\ FrameDepth(scene, reader, r) \in Int
         /\ Opens(Tok) => FrameDepth(scene', reader', r) = FrameDepth(scene, reader, r) + 1
         /\ Closes(Tok) => FrameDepth(scene', reader', r) = FrameDepth(scene, reader, r) - 1
         /\ ~Opens(Tok) /\ ~Closes(Tok) =>
              FrameDepth(scene', reader', r) = FrameDepth(scene, reader, r)
  <1> DEFINE text == scene[Frame.file]
             i == Frame.pos
  <1>1. /\ r \in 1..Len(reader) /\ Frame = reader[r] /\ i \in 1..Len(text)
        /\ reader[r].file \in DOMAIN scene /\ scene[reader[r].file] \in Seq(Token)
    BY FrameFacts
  <1>2. reader'[r].file = reader[r].file /\ reader'[r].pos = reader[r].pos + 1
    BY <1>1, AdvancedFacts
  <1>3. text \in Seq(Token) /\ Tok = text[i]
    BY <1>1 DEF Tok
  <1>4. FrameDepth(scene', reader', r) = Depth(text, i + 1)
    BY <1>1, <1>2 DEF FrameDepth
  <1>5. FrameDepth(scene, reader, r) = Depth(text, i)
    BY <1>1 DEF FrameDepth
  <1> HIDE DEF text, i
  <1>6. /\ Depth(text, i) \in Int
        /\ Opens(Tok) => Depth(text, i + 1) = Depth(text, i) + 1
        /\ Closes(Tok) => Depth(text, i + 1) = Depth(text, i) - 1
        /\ ~Opens(Tok) /\ ~Closes(Tok) => Depth(text, i + 1) = Depth(text, i)
    BY <1>1, <1>3, DepthFacts
  <1> QED BY <1>1, <1>4, <1>5, <1>6 DEF text, i

(* the frames below the one that is read stay as they are *)
LEMMA LowerFrames ==
  ASSUME IInv, status = "parse", ReaderMove, scene' = scene
  PROVE  /\ \A r \in 1..(Len(reader) - 1) :
              FrameDepth(scene', reader', r) = FrameDepth(scene, reader, r)
         /\ reader' = reader =>
              FrameDepth(scene', reader', Len(reader)) = FrameDepth(scene, reader, Len(reader))
  <1> DEFINE n == Len(reader)
  <1>1. n \in Nat \ {0}
    BY FrameFacts
  <1>2. \A r \in 1..(n - 1) : reader'[r] = reader[r]
    <2> SUFFICES ASSUME NEW r \in 1..(n - 1) PROVE reader'[r] = reader[r]
      OBVIOUS
    <2>1. r \in 1..n /\ r # n
      BY <1>1
    <2>2. Advanced[r] = reader[r] /\ Advanced \in Seq([file : DOMAIN scene, pos : Nat \ {0}])
            /\ Len(Advanced) = n
      BY <2>1, AdvancedFacts
    <2>3. CASE \E f \in FileName : reader' = Append(Advanced, [file |-> f, pos |-> 1])
                                    /\ f \in DOMAIN scene
      <3>1. PICK f \in DOMAIN scene : reader' = Append(Advanced, [file |-> f, pos |-> 1])
        BY <2>3
      <3> QED BY <2>1, <2>2, <3>1, AppendProperties
    <2>4. CASE reader' = Pop(reader)
      BY <2>4, ParseFacts, PopFacts DEF IInv, TypeOK, ReaderTypeOK
    <2> QED BY <2>2, <2>3, <2>4 DEF ReaderMove
  <1> QED BY <1>2 DEF FrameDepth

(* the tokens that push and pop nothing *)
PlainToken ==
  \/ (AtInclude /\ \E arg \in IncludeArgs : IncludeSeen(arg[1]) \/ IncludeSkip(arg[1], arg[2]))
  \/ ParseDetailLevel \/ ParseFill \/ ParseMesh \/ ParseSphereOrCone
    \/ ParsePoly \/ ParseTexturedTriangle \/ ParseOther

LEMMA PlainTokenFacts ==
  ASSUME IInv, status' = "parse", PlainToken
  PROVE  /\ status = "parse" /\ ~AtEof /\ reader' = Advanced /\ scene' = scene
         /\ ~Opens(Tok) /\ ~Closes(Tok)
         /\ UNCHANGED <<nodeStack, xformVars>> /\ XformsKept
  <1>1. CASE AtInclude /\ \E arg \in IncludeArgs : IncludeSeen(arg[1])
    <2>1. PICK f : IncludeSeen(f)
      BY <1>1
    <2>2. status = "parse" /\ ~AtEof /\ ~Opens(Tok) /\ ~Closes(Tok) /\ GraphTypeOK
      BY <1>1 DEF AtInclude, At, Opens, Closes, IInv, TypeOK
    <2>3. /\ reader' = Advanced /\ scene' = scene /\ UNCHANGED <<nodeStack, xformVars>>
          /\ nodes' = AddChild(nodes, sceneNode, includefileToNodeMap[f])
          /\ f \in DOMAIN includefileToNodeMap
      BY <2>1 DEF IncludeSeen, Advance
    <2>4. Len(nodes) \in Nat /\ includefileToNodeMap[f] \in 1..Len(nodes)
      BY <2>2, <2>3, LenProperties DEF GraphTypeOK, NodeIds
    <2>5. sceneNode \in 1..Len(nodes) /\ nodes \in Seq(NodeRecord(Len(nodes)))
      BY <2>2, ParseFacts DEF GraphTypeOK, NodeIds
    <2>6. XformsKept
      BY <2>3, <2>4, <2>5, AddChildFacts DEF XformsKept
    <2> QED BY <2>2, <2>3, <2>6
  <1>2. CASE AtInclude /\ \E arg \in IncludeArgs : IncludeSkip(arg[1], arg[2])
    BY <1>2 DEF AtInclude, At, Opens, Closes, IncludeSkip, Advance, Stays, graphVars, XformsKept
  <1>3. CASE ParseMesh
    <2> DEFINE node == [nodes[sceneNode] EXCEPT !.mesh = Tok.mesh, !.material = extMaterial,
                                                !.textureFilename = Tok.tex]
    <2>1. status = "parse" /\ ~AtEof /\ ~Opens(Tok) /\ ~Closes(Tok) /\ GraphTypeOK
      BY <1>3 DEF ParseMesh, At, Opens, Closes, IInv, TypeOK
    <2>2. sceneNode \in 1..Len(nodes) /\ nodes \in Seq(NodeRecord(Len(nodes)))
      BY <2>1, ParseFacts DEF GraphTypeOK, NodeIds
    <2>3. nodes[sceneNode] \in NodeRecord(Len(nodes))
      BY <2>2, ElementOfSeq
    <2>4. nodes' = [nodes EXCEPT ![sceneNode] = node] /\ reader' = Advanced
      BY <1>3, <2>2, <2>3 DEF ParseMesh, NodeRecord, Advance
    <2>5. node.xform = nodes[sceneNode].xform
      BY <2>3 DEF NodeRecord
    <2> HIDE DEF node
    <2>6. XformsKept
      BY <2>2, <2>4, <2>5, LenProperties DEF XformsKept
    <2> QED BY <1>3, <2>1, <2>4, <2>6 DEF ParseMesh
  <1>4. CASE ParsePoly
    BY <1>4 DEF ParsePoly, At, Opens, Closes, Advance, graphVars, XformsKept
  <1>5. CASE ParseDetailLevel \/ ParseFill \/ ParseSphereOrCone \/ ParseTexturedTriangle
               \/ ParseOther
    BY <1>5 DEF ParseDetailLevel, ParseFill, ParseSphereOrCone, ParseTexturedTriangle,
                ParseOther, At, Opens, Closes, Advance, Stays, graphVars, XformsKept
  <1> QED BY <1>1, <1>2, <1>3, <1>4, <1>5 DEF PlainToken

LEMMA PlainTokenHistory ==
  ASSUME IInv, status' = "parse", PlainToken, NEW G, History(G)
  PROVE  History(G)'
  <1>1. /\ status = "parse" /\ ~AtEof /\ reader' = Advanced /\ scene' = scene
        /\ ~Opens(Tok) /\ ~Closes(Tok)
        /\ UNCHANGED <<nodeStack, xformVars>> /\ XformsKept
    BY PlainTokenFacts
  <1>2. PICK n \in Nat \ {0} : n = Len(reader)
    BY <1>1, FrameFacts
  <1>3. Len(reader') = Len(reader) /\ reader'[n] = Advanced[n]
    BY <1>1, AdvancedFacts
  <1>4. FrameDepth(scene', reader', n) = FrameDepth(scene, reader, n)
    BY <1>1, <1>2, <1>3, TokDepth
  <1>5. \A r \in 1..(n - 1) : FrameDepth(scene', reader', r) = FrameDepth(scene, reader, r)
    BY <1>1, <1>2, LowerFrames DEF ReaderMove
  <1>6. \A r \in 1..n : r = n \/ r \in 1..(n - 1)
    BY <1>2
  <1>7. \A r \in 1..n : FrameDepth(scene', reader', r) = FrameDepth(scene, reader, r)
    BY <1>4, <1>5, <1>6
  <1> QED BY <1>1, <1>2, <1>3, <1>7, HistoryKept

AtBrace == At("}")

(* A balanced file closes only transforms it opened, so the node on top is *)
(* the one a transform of this file made.                                  *)
LEMMA ClosingFacts ==
  ASSUME IInv, status = "parse", Balanced(scene), AtBrace, NEW G, History(G)
  PROVE  /\ Len(G) >= 2 /\ G[Len(G) - 1] \in Height /\ G[Len(G)] \in Height
         /\ \/ \E t \in Transform : StaticEntry(G[Len(G) - 1], G[Len(G)], t)
            \/ AnimatedEntry(G[Len(G) - 1], G[Len(G)])
  <1> DEFINE n == Len(G)
             text == scene[Frame.file]
             i == Frame.pos
  <1>1. ~AtEof /\ Closes(Tok)
    BY DEF At, AtBrace, Closes
  <1>2. /\ n \in Nat \ {0} /\ Top(G) = G[n] /\ \A k \in 1..n : G[k] \in Height
    BY HistoryFacts
  <1>3. /\ Frame = reader[Len(reader)] /\ Frame.file \in DOMAIN scene
        /\ text \in Seq(Token) /\ i \in 1..Len(text)
    <2>1. Len(reader) \in Nat \ {0}
      BY FrameFacts
    <2>2. Len(reader) \in 1..Len(reader)
      BY <2>1
    <2> QED BY <1>1, <2>2, FrameFacts
  <1>4. Tok = text[i]
    BY DEF Tok
  <1>5. Depth(text, i + 1) >= 0
    <2>1. i \in DOMAIN text
      BY <1>3, LenProperties
    <2> QED BY <1>3, <2>1 DEF Balanced
  <1>6. G[n].open = Depth(text, i)
    BY <1>2, <1>3 DEF History, IsTop, FrameDepth
  <1> HIDE DEF text, i
  <1>7. Depth(text, i) \in Int /\ Depth(text, i + 1) = Depth(text, i) - 1
    BY <1>1, <1>3, <1>4, DepthFacts
  <1>8. G[n].open >= 1
    BY <1>5, <1>6, <1>7
  <1>9. n # 1
    BY <1>8 DEF History, Ground
  <1>10. n \in Nat /\ n >= 2 /\ n - 1 \in 1..(n - 1) /\ n - 1 \in 1..n /\ n \in 1..n /\ n - 1 + 1 = n
    <2>1. n \in Nat \ {0}
      BY <1>2
    <2> HIDE DEF n
    <2> QED BY <1>9, <2>1
  <1>11. Entry(G[n - 1], G[n - 1 + 1], nodes[nodeStack[n - 1 + 1]].xform)
    BY <1>10 DEF History
  <1>12. ~FileEntry(G[n - 1], G[n])
    <2>1. FileEntry(G[n - 1], G[n]) => G[n].open = 0
      BY DEF FileEntry
    <2> HIDE DEF n
    <2> QED BY <1>8, <2>1
  <1> QED BY <1>2, <1>10, <1>11, <1>12 DEF Entry

LEMMA EntryTypes ==
  ASSUME NEW top \in Height
  PROVE  /\ \A t \in Transform : \E above \in Height : StaticEntry(top, above, t)
         /\ \E above \in Height : AnimatedEntry(top, above)
         /\ \E above \in Height : FileEntry(top, above)
  <1>1. /\ top.types \in Seq({STATIC, ANIMATED}) /\ top.stack \in Seq(Matrix)
        /\ top.matrix \in Matrix /\ top.open \in Nat /\ top.level \in Nat \ {0}
    BY DEF Height
  <1>2. /\ Append(top.types, STATIC) \in Seq({STATIC, ANIMATED})
        /\ Append(top.types, ANIMATED) \in Seq({STATIC, ANIMATED})
        /\ Append(top.stack, top.matrix) \in Seq(Matrix)
        /\ \A t \in Transform : Append(top.matrix, t) \in Matrix
    BY <1>1, AppendProperties DEF Matrix
  <1>3. ASSUME NEW t \in Transform
        PROVE  \E above \in Height : StaticEntry(top, above, t)
    <2>1. [types |-> Append(top.types, STATIC), stack |-> Append(top.stack, top.matrix),
           matrix |-> Append(top.matrix, t), open |-> top.open + 1, level |-> top.level] \in Height
      BY <1>1, <1>2 DEF Height
    <2> QED BY <2>1 DEF StaticEntry
  <1>4. \E above \in Height : AnimatedEntry(top, above)
    <2>1. [types |-> Append(top.types, ANIMATED), stack |-> top.stack,
           matrix |-> top.matrix, open |-> top.open + 1, level |-> top.level] \in Height
      BY <1>1, <1>2 DEF Height
    <2> QED BY <2>1 DEF AnimatedEntry
  <1>5. \E above \in Height : FileEntry(top, above)
    <2>1. [types |-> top.types, stack |-> top.stack,
           matrix |-> top.matrix, open |-> 0, level |-> top.level + 1] \in Height
      BY <1>1 DEF Height
    <2> QED BY <2>1 DEF FileEntry
  <1> QED BY <1>3, <1>4, <1>5

(* two histories agree on the nodes that are on the stack in both *)
Continues(G, H) ==
  \A k \in 1..Len(G) : k \in 1..Len(H) => H[k] = G[k]

LEMMA PushHistory ==
  ASSUME IInv, status = "parse", NEW G, History(G), XformsKept,
         NEW new, nodeStack' = Append(nodeStack, new),
         NEW above \in Height, Entry(Top(G), above, nodes'[new].xform),
         IsTop(above)', Len(reader) <= Len(reader'),
         Len(reader) < Len(reader') =>
           FrameDepth(scene', reader', Len(reader)) = Top(G).open,
         \A r \in 1..(Len(reader) - 1) :
           FrameDepth(scene', reader', r) = FrameDepth(scene, reader, r)
  PROVE  \E H : History(H)' /\ Continues(G, H)
  <1>1. G \in Seq(Height)
    BY DEF History
  <1>2. /\ Append(G, above) \in Seq(Height)
        /\ Len(Append(G, above)) = Len(G) + 1 /\ Append(G, above)[Len(G) + 1] = above
        /\ \A k \in 1..Len(G) : Append(G, above)[k] = G[k]
    BY <1>1, AppendProperties
  <1>3. PICK H \in Seq(Height) : /\ Len(H) = Len(G) + 1 /\ H[Len(G) + 1] = above
                                 /\ \A k \in 1..Len(G) : H[k] = G[k]
    BY <1>2
  <1>4. History(H)'
    BY <1>3, HistoryPush
  <1> QED BY <1>3, <1>4 DEF Continues

LEMMA StaticXformHistory ==
  ASSUME IInv, status' = "parse", StaticXform, NEW G, History(G)
  PROVE  \E H : History(H)' /\ Continues(G, H)
  <1> DEFINE top == Top(G)
  <1>1. /\ status = "parse" /\ ~AtEof /\ reader' = Advanced /\ scene' = scene
        /\ Opens(Tok) /\ GraphTypeOK /\ ReaderTypeOK /\ XformTypeOK
        /\ PushNode("static", <<Tok.xf>>, fileScopeStack)
        /\ xformTypeStack' = Append(xformTypeStack, STATIC)
        /\ xformStack' = Append(xformStack, xformMatrix)
        /\ xformMatrix' = Append(xformMatrix, Tok.xf)
    BY DEF StaticXform, At, Opens, Advance, Stays, Times, IInv, TypeOK
  <1>2. Tok \in Token /\ Tok.op = "xs"
    BY <1>1, ParseFacts, TokenType DEF IInv, StaticXform
  <1>3. Tok.xf \in Transform /\ <<Tok.xf>> \in Matrix
    <2>1. Tok.xf \in Transform
      BY <1>2 DEF Token
    <2> QED BY <2>1 DEF Matrix
  <1>4. /\ XformsKept /\ nodes'[Len(nodes) + 1].xform = <<Tok.xf>>
        /\ nodeStack' = Append(nodeStack, Len(nodes) + 1)
    BY <1>1, <1>3, ParseFacts, PushNodeShape DEF GraphTypeOK
  <1>5. /\ Len(G) \in Nat \ {0} /\ G[Len(G)] \in Height /\ top = G[Len(G)] /\ G \in Seq(Height)
    BY <1>1, HistoryFacts DEF History
  <1> HIDE DEF top
  <1>6. PICK above \in Height : StaticEntry(top, above, Tok.xf)
    BY <1>3, <1>5, EntryTypes
  <1>7. Entry(top, above, nodes'[Len(nodes) + 1].xform)
    BY <1>3, <1>4, <1>6 DEF Entry
  <1>8. PICK n \in Nat \ {0} : n = Len(reader)
    BY <1>1, FrameFacts
  <1>9. Len(reader') = n /\ reader'[n] = Advanced[n]
    BY <1>1, <1>8, AdvancedFacts
  <1>10. FrameDepth(scene', reader', n) = FrameDepth(scene, reader, n) + 1
    BY <1>1, <1>8, <1>9, TokDepth
  <1>11. \A r \in 1..(n - 1) : FrameDepth(scene', reader', r) = FrameDepth(scene, reader, r)
    BY <1>1, <1>8, LowerFrames DEF ReaderMove
  <1>12. IsTop(top)
    BY DEF History, top
  <1>13. IsTop(above)'
    BY <1>1, <1>6, <1>8, <1>9, <1>10, <1>12 DEF StaticEntry, IsTop
  <1>14. Len(reader) <= Len(reader') /\ ~(Len(reader) < Len(reader'))
    BY <1>8, <1>9
  <1> QED BY <1>1, <1>4, <1>7, <1>8, <1>11, <1>13, <1>14, PushHistory DEF top

LEMMA AnimatedXformHistory ==
  ASSUME IInv, status' = "parse", AnimatedXform, NEW G, History(G)
  PROVE  \E H : History(H)' /\ Continues(G, H)
  <1> DEFINE top == Top(G)
  <1>1. /\ status = "parse" /\ ~AtEof /\ reader' = Advanced /\ scene' = scene
        /\ Opens(Tok) /\ GraphTypeOK /\ ReaderTypeOK
        /\ PushNode(Tok.name, Identity, fileScopeStack)
        /\ xformTypeStack' = Append(xformTypeStack, ANIMATED)
        /\ xformStack' = xformStack /\ xformMatrix' = xformMatrix
    BY DEF AnimatedXform, At, Opens, Advance, Stays, IInv, TypeOK
  <1>2. Tok \in Token /\ Tok.op = "x"
    BY <1>1, ParseFacts, TokenType DEF IInv, AnimatedXform
  <1>3. Tok.name \in XformName /\ Identity \in Matrix
    BY <1>2, EmptySeq DEF Token, Matrix, Identity
  <1>4. /\ XformsKept /\ nodes'[Len(nodes) + 1].xform = Identity
        /\ nodeStack' = Append(nodeStack, Len(nodes) + 1)
    BY <1>1, <1>3, ParseFacts, PushNodeShape DEF GraphTypeOK
  <1>5. top \in Height
    BY <1>1, HistoryFacts DEF History
  <1> HIDE DEF top
  <1>6. PICK above \in Height : AnimatedEntry(top, above)
    BY <1>5, EntryTypes
  <1>7. Entry(top, above, nodes'[Len(nodes) + 1].xform)
    BY <1>4, <1>6 DEF Entry
  <1>8. PICK n \in Nat \ {0} : n = Len(reader)
    BY <1>1, FrameFacts
  <1>9. Len(reader') = n /\ reader'[n] = Advanced[n]
    BY <1>1, <1>8, AdvancedFacts
  <1>10. FrameDepth(scene', reader', n) = FrameDepth(scene, reader, n) + 1
    BY <1>1, <1>8, <1>9, TokDepth
  <1>11. \A r \in 1..(n - 1) : FrameDepth(scene', reader', r) = FrameDepth(scene, reader, r)
    BY <1>1, <1>8, LowerFrames DEF ReaderMove
  <1>12. IsTop(top)
    BY DEF History, top
  <1>13. IsTop(above)'
    BY <1>1, <1>6, <1>8, <1>9, <1>10, <1>12 DEF AnimatedEntry, IsTop
  <1>14. Len(reader) <= Len(reader') /\ ~(Len(reader) < Len(reader'))
    BY <1>8, <1>9
  <1> QED BY <1>1, <1>4, <1>7, <1>8, <1>11, <1>13, <1>14, PushHistory DEF top

LEMMA IncludeNewHistory ==
  ASSUME IInv, status' = "parse", AtInclude, NEW f \in FileName, NEW d, IncludeNew(f, d),
         NEW G, History(G)
  PROVE  \E H : History(H)' /\ Continues(G, H)
  <1> DEFINE top == Top(G)
             opened == [file |-> f, pos |-> 1]
  <1>1. /\ status = "parse" /\ ~AtEof /\ ~Opens(Tok) /\ ~Closes(Tok) /\ GraphTypeOK
        /\ ReaderTypeOK
    BY DEF AtInclude, At, Opens, Closes, IInv, TypeOK
  <1>2. /\ reader' = Append(Advanced, opened) /\ f \in DOMAIN scene
        /\ scene' = scene /\ UNCHANGED xformVars
        /\ fileScopeStack' = Append(fileScopeStack, f)
        /\ PushNode("null", Identity, fileScopeStack')
    BY DEF IncludeNew
  <1>3. /\ fileScopeStack' \in Seq(FileName \cup {"root"}) /\ fileScopeStack' # << >>
        /\ Identity \in Matrix
    BY <1>1, <1>2, PushFacts, AppendProperties, EmptySeq DEF GraphTypeOK, Matrix, Identity
  <1>4. /\ XformsKept /\ nodes'[Len(nodes) + 1].xform = Identity
        /\ nodeStack' = Append(nodeStack, Len(nodes) + 1)
    BY <1>1, <1>2, <1>3, ParseFacts, PushNodeShape
  <1>5. top \in Height
    BY <1>1, HistoryFacts DEF History
  <1> HIDE DEF top
  <1>6. PICK above \in Height : FileEntry(top, above)
    BY <1>5, EntryTypes
  <1>7. Entry(top, above, nodes'[Len(nodes) + 1].xform)
    BY <1>4, <1>6 DEF Entry
  <1>8. PICK n \in Nat \ {0} : n = Len(reader)
    BY <1>1, FrameFacts
  <1>9. /\ Len(reader') = n + 1 /\ reader'[n] = Advanced[n]
        /\ reader'[n + 1] = opened
    <2>1. /\ Advanced \in Seq([file : DOMAIN scene, pos : Nat \ {0}]) /\ Len(Advanced) = n
          /\ n \in 1..n
      BY <1>1, <1>8, AdvancedFacts
    <2> HIDE DEF opened
    <2> QED BY <1>2, <2>1, AppendProperties
  <1>10. FrameDepth(scene', reader', n) = FrameDepth(scene, reader, n)
    BY <1>1, <1>2, <1>8, <1>9, TokDepth
  <1>11. \A r \in 1..(n - 1) : FrameDepth(scene', reader', r) = FrameDepth(scene, reader, r)
    BY <1>1, <1>2, <1>8, LowerFrames DEF ReaderMove
  <1>12. IsTop(top)
    BY DEF History, top
  <1>13. FrameDepth(scene', reader', n + 1) = 0
    BY <1>9, DepthStart DEF FrameDepth
  <1>14. IsTop(above)'
    BY <1>2, <1>6, <1>8, <1>9, <1>12, <1>13 DEF FileEntry, IsTop, xformVars
  <1>15. Len(reader) <= Len(reader') /\ FrameDepth(scene', reader', Len(reader)) = top.open
    BY <1>8, <1>9, <1>10, <1>12 DEF IsTop
  <1> QED BY <1>1, <1>4, <1>7, <1>8, <1>11, <1>14, <1>15, PushHistory DEF top

LEMMA PopPush ==
  ASSUME NEW S, NEW stack \in Seq(S), NEW e \in S
  PROVE  Pop(Append(stack, e)) = stack /\ Top(Append(stack, e)) = e
  <1>1. PICK n \in Nat : n = Len(stack)
    BY LenProperties
  <1>2. /\ Append(stack, e) \in Seq(S) /\ Len(Append(stack, e)) = n + 1
        /\ Top(Append(stack, e)) = e /\ \A i \in 1..n : Append(stack, e)[i] = stack[i]
    BY <1>1, PushFacts
  <1>3. Append(stack, e) # << >> /\ n + 1 - 1 = n
    BY <1>1, <1>2, EmptySeq
  <1>4. /\ Pop(Append(stack, e)) \in Seq(S) /\ Len(Pop(Append(stack, e))) = n
        /\ \A i \in 1..n : Pop(Append(stack, e))[i] = stack[i]
    <2> DEFINE more == Append(stack, e)
    <2>1. more \in Seq(S) /\ more # << >> /\ Len(more) = n + 1 /\ Len(more) - 1 = n
            /\ \A i \in 1..n : more[i] = stack[i]
      BY <1>2, <1>3
    <2> HIDE DEF more
    <2>2. /\ Pop(more) \in Seq(S) /\ Len(Pop(more)) = Len(more) - 1
          /\ \A i \in 1..(Len(more) - 1) : Pop(more)[i] = more[i]
      BY <2>1, PopFacts
    <2>3. /\ Pop(more) \in Seq(S) /\ Len(Pop(more)) = n
          /\ \A i \in 1..n : Pop(more)[i] = stack[i]
      BY <2>1, <2>2
    <2> QED BY <2>3 DEF more
  <1>5. Pop(Append(stack, e)) = stack
    BY <1>1, <1>4, SeqEqual
  <1> QED BY <1>2, <1>5

LEMMA PopContinues ==
  ASSUME IInv, status = "parse", NEW G, History(G)
  PROVE  Continues(G, Pop(G))
  <1>1. G \in Seq(Height) /\ G # << >> /\ Len(G) \in Nat
    BY HistoryFacts DEF History
  <1>2. Len(Pop(G)) = Len(G) - 1 /\ \A k \in 1..(Len(G) - 1) : Pop(G)[k] = G[k]
    BY <1>1, PopFacts
  <1> QED BY <1>2 DEF Continues

(* closing a transform, static or not, uncovers the record below *)
LEMMA ClosingHistory ==
  ASSUME IInv, status = "parse", Balanced(scene), AtBrace, Advance, scene' = scene,
         XformsKept, nodeStack' = Pop(nodeStack), NEW G, History(G),
         xformTypeStack' = Pop(xformTypeStack),
         Top(xformTypeStack) = STATIC => /\ xformMatrix' = Top(xformStack)
                                         /\ xformStack' = Pop(xformStack),
         Top(xformTypeStack) # STATIC => UNCHANGED <<xformMatrix, xformStack>>
  PROVE  \E H : History(H)' /\ Continues(G, H)
  <1>0. PICK k \in Nat \ {0} : k = Len(G)
    BY HistoryFacts
  <1>1. /\ k >= 2 /\ G[k - 1] \in Height /\ G[k] \in Height
        /\ \/ \E t \in Transform : StaticEntry(G[k - 1], G[k], t)
           \/ AnimatedEntry(G[k - 1], G[k])
    BY <1>0, ClosingFacts
  <1>2. PICK below, top : below = G[k - 1] /\ top = G[k]
    OBVIOUS
  <1>3. ~AtEof /\ Closes(Tok) /\ reader' = Advanced
    BY DEF At, AtBrace, Closes, Advance
  <1>4. PICK n \in Nat \ {0} : n = Len(reader)
    BY FrameFacts
  <1>5. Len(reader') = n /\ reader'[n] = Advanced[n]
    BY <1>3, <1>4, AdvancedFacts
  <1>6. /\ FrameDepth(scene', reader', n) = FrameDepth(scene, reader, n) - 1
        /\ FrameDepth(scene, reader, n) \in Int
    BY <1>3, <1>4, <1>5, TokDepth
  <1>7. \A r \in 1..(n - 1) : FrameDepth(scene', reader', r) = FrameDepth(scene, reader, r)
    BY <1>3, <1>4, LowerFrames DEF ReaderMove
  <1>8. IsTop(top)
    BY <1>0, <1>2, HistoryFacts DEF History
  <1>9. /\ below.types \in Seq({STATIC, ANIMATED}) /\ below.stack \in Seq(Matrix)
        /\ below.matrix \in Matrix /\ below.open \in Nat
    BY <1>1, <1>2 DEF Height
  <1>10. /\ top.level = below.level /\ top.open = below.open + 1
         /\ xformTypeStack' = below.types /\ xformStack' = below.stack
         /\ xformMatrix' = below.matrix
    <2>1. CASE \E t \in Transform : StaticEntry(below, top, t)
      <3>1. PICK t \in Transform : StaticEntry(below, top, t)
        BY <2>1
      <3>2. /\ xformTypeStack = Append(below.types, STATIC)
            /\ xformStack = Append(below.stack, below.matrix)
            /\ top.level = below.level /\ top.open = below.open + 1
        BY <1>8, <3>1 DEF StaticEntry, IsTop
      <3>3. /\ Pop(xformTypeStack) = below.types /\ Top(xformTypeStack) = STATIC
            /\ Pop(xformStack) = below.stack /\ Top(xformStack) = below.matrix
        BY <1>9, <3>2, PopPush
      <3> QED BY <3>2, <3>3
    <2>2. CASE AnimatedEntry(below, top)
      <3>1. /\ xformTypeStack = Append(below.types, ANIMATED)
            /\ xformStack = below.stack /\ xformMatrix = below.matrix
            /\ top.level = below.level /\ top.open = below.open + 1
        BY <1>8, <2>2 DEF AnimatedEntry, IsTop
      <3>2. Pop(xformTypeStack) = below.types /\ Top(xformTypeStack) # STATIC
        BY <1>9, <3>1, PopPush DEF STATIC, ANIMATED
      <3> QED BY <3>1, <3>2
    <2> QED BY <1>1, <1>2, <2>1, <2>2
  <1>11. below.open = FrameDepth(scene', reader', n)
    BY <1>4, <1>6, <1>8, <1>9, <1>10 DEF IsTop
  <1>12. IsTop(below)'
    BY <1>4, <1>5, <1>8, <1>10, <1>11 DEF IsTop
  <1>13. History(Pop(G))'
    BY <1>0, <1>1, <1>2, <1>4, <1>5, <1>7, <1>12, HistoryPop
  <1> QED BY <1>13, PopContinues

LEMMA IncludeReturnHistory ==
  ASSUME IInv, PosInv, Balanced(scene), IncludeReturn, NEW G, History(G)
  PROVE  \E H : History(H)' /\ Continues(G, H)
  <1>1. /\ status = "parse" /\ AtEof /\ Len(reader) > 1 /\ reader' = Pop(reader)
        /\ nodeStack' = Pop(nodeStack) /\ nodes' = nodes /\ scene' = scene
        /\ UNCHANGED xformVars
    BY DEF IncludeReturn, PopNode, Stays
  <1>2. PICK n \in Nat \ {0} : n = Len(reader)
    BY <1>1, FrameFacts
  <1>3. PICK k \in Nat \ {0} : k = Len(G)
    BY <1>1, HistoryFacts
  <1>4. PICK top : top = G[k]
    OBVIOUS
  <1>5. IsTop(top)
    BY <1>1, <1>3, <1>4, HistoryFacts DEF History
  <1>6. FrameDepth(scene, reader, n) = 0
    <2>1. /\ Frame = reader[n] /\ reader[n].file \in DOMAIN scene
          /\ Len(scene[reader[n].file]) \in Nat /\ reader[n].pos \in Nat
      <3>1. n \in 1..n
        BY <1>2
      <3> QED BY <1>1, <1>2, <3>1, FrameFacts, LenProperties
    <2>2. reader[n].pos <= Len(scene[reader[n].file]) + 1
      BY <1>1, <1>2 DEF PosInv
    <2>3. reader[n].pos > Len(scene[reader[n].file])
      BY <1>1, <2>1 DEF AtEof
    <2>4. reader[n].pos = Len(scene[reader[n].file]) + 1
      BY <2>1, <2>2, <2>3
    <2> QED BY <2>1, <2>4 DEF Balanced, FrameDepth
  <1>7. top.open = 0 /\ top.level = n
    BY <1>2, <1>5, <1>6 DEF IsTop
  <1>8. k >= 2 /\ k - 1 \in 1..(k - 1) /\ k - 1 \in 1..k /\ k \in 1..k
    <2>1. k # 1
      BY <1>1, <1>2, <1>4, <1>7 DEF History, Ground
    <2> QED BY <1>3, <2>1
  <1>9. PICK below \in Height : below = G[k - 1]
    BY <1>1, <1>3, <1>8, HistoryFacts
  <1>10. Entry(below, top, nodes[nodeStack[k]].xform)
    <2>1. Entry(G[k - 1], G[k - 1 + 1], nodes[nodeStack[k - 1 + 1]].xform)
      BY <1>3, <1>8 DEF History
    <2>2. k - 1 + 1 = k
      BY <1>3
    <2> QED BY <1>4, <1>9, <2>1, <2>2
  <1>11. FileEntry(below, top)
    <2>1. below.open \in Nat
      BY <1>9 DEF Height
    <2>2. below.open + 1 # 0
      BY <2>1
    <2>3. \A t : StaticEntry(below, top, t) \/ AnimatedEntry(below, top) => top.open = below.open + 1
      BY DEF StaticEntry, AnimatedEntry
    <2> QED BY <1>7, <1>10, <2>2, <2>3 DEF Entry
  <1>12. /\ top.types = below.types /\ top.stack = below.stack /\ top.matrix = below.matrix
         /\ n = below.level + 1 /\ below.level \in Nat
    BY <1>7, <1>9, <1>11 DEF FileEntry, Height
  <1>13. /\ Len(reader') = n - 1 /\ n - 1 \in 1..(n - 1)
         /\ \A r \in 1..(n - 1) : reader'[r] = reader[r]
    <2>1. /\ Len(Pop(reader)) = Len(reader) - 1
          /\ \A r \in 1..(Len(reader) - 1) : Pop(reader)[r] = reader[r]
      BY <1>1, ParseFacts, PopFacts DEF IInv, TypeOK, ReaderTypeOK
    <2>2. n > 1
      BY <1>1, <1>2
    <2> QED BY <1>1, <1>2, <2>1, <2>2
  <1>14. \A r \in 1..(n - 1) : FrameDepth(scene', reader', r) = FrameDepth(scene, reader, r)
    BY <1>1, <1>13 DEF FrameDepth
  <1>15. below.open = FrameDepth(scene, reader, n - 1)
    <2>1. G[k - 1].level < G[k - 1 + 1].level => G[k - 1].open = FrameDepth(scene, reader, G[k - 1].level)
      BY <1>3, <1>8 DEF History
    <2>2. k - 1 + 1 = k /\ below.level = n - 1 /\ below.level < n
      BY <1>3, <1>12
    <2> QED BY <1>4, <1>7, <1>9, <2>1, <2>2
  <1>16. IsTop(below)'
    <2>1. below.level = n - 1
      BY <1>12
    <2> QED BY <1>1, <1>5, <1>12, <1>13, <1>14, <1>15, <2>1 DEF IsTop, xformVars
  <1>17. \A r \in 1..(Len(reader') - 1) :
           FrameDepth(scene', reader', r) = FrameDepth(scene, reader, r)
    <2>1. \A r \in 1..(n - 1 - 1) : r \in 1..(n - 1)
      BY <1>2
    <2> QED BY <1>13, <1>14, <2>1
  <1>18. XformsKept
    BY <1>1 DEF XformsKept
  <1>19. History(Pop(G))'
    BY <1>1, <1>3, <1>8, <1>9, <1>16, <1>17, <1>18, HistoryPop
  <1> QED BY <1>1, <1>19, PopContinues

LEMMA LoadHistory ==
  ASSUME IInv, Load, status' = "parse"
  PROVE  \E H : History(H)'
  <1>1. /\ xformStack' = << >> /\ xformTypeStack' = << >> /\ xformMatrix' = Identity
        /\ nodeStack' = <<1>> /\ nodes' = <<NewNode("root", "root", Identity)>>
        /\ reader' = <<[file |-> Main, pos |-> 1]>> /\ scene' = scene
    BY DEF Load, IInv, IdleEmpty
  <1>2. PICK H : H = <<Ground>>
    OBVIOUS
  <1>3. Ground \in Height /\ Ground.level = 1
    BY EmptySeq DEF Ground, Height, Matrix, Identity
  <1>4. H \in Seq(Height) /\ Len(H) = 1 /\ H[1] = Ground
    <2> HIDE DEF Ground
    <2> QED BY <1>2, <1>3
  <1>5. Len(nodeStack') = 1 /\ nodes'[nodeStack'[1]].xform = Identity
    BY <1>1 DEF NewNode
  <1>6. Len(reader') = 1 /\ FrameDepth(scene', reader', Len(reader')) = 0
    <2>1. Len(reader') = 1 /\ reader'[1].pos = 1
      BY <1>1
    <2> QED BY <2>1, DepthStart DEF FrameDepth
  <1>7. IsTop(H[1])'
    BY <1>1, <1>4, <1>6 DEF IsTop, Ground
  <1>8. Top(H) = H[1]
    BY <1>4 DEF Top
  <1>9. 1..(Len(H) - 1) = {} /\ 1..Len(H) = {1}
    BY <1>4
  <1>10. IsTop(Top(H))'
    BY <1>7, <1>8 DEF IsTop
  <1>11. History(H)'
    <2>1. \A j, k \in 1..Len(H) : j <= k => H[j].level <= H[k].level
      BY <1>3, <1>4, <1>9
    <2> QED BY <1>4, <1>5, <1>9, <1>10, <2>1 DEF History
  <1> QED BY <1>11

(* every step from a parsing state to another continues the history *)
LEMMA HistoryContinues ==
  ASSUME IInv, PosInv, Balanced(scene), [Next]_vars, ~Load, status' = "parse",
         NEW G, History(G)
  PROVE  \E H : History(H)' /\ Continues(G, H)
  <1>1. scene' = scene
    BY ReaderStep
  <1>2. status = "parse" /\ ReaderMove
    BY ReaderMoves
  <1>3. CASE UNCHANGED vars
    <2>1. /\ Len(reader') = Len(reader) /\ UNCHANGED <<nodeStack, xformVars>> /\ XformsKept
          /\ \A r \in 1..Len(reader) :
               FrameDepth(scene', reader', r) = FrameDepth(scene, reader, r)
      BY <1>3 DEF vars, graphVars, XformsKept
    <2>2. History(G)'
      BY <1>2, <2>1, HistoryKept
    <2> QED BY <2>2 DEF Continues
  <1>4. CASE StaticXform
    BY <1>4, StaticXformHistory
  <1>5. CASE AnimatedXform
    BY <1>5, AnimatedXformHistory
  <1>6. CASE EndStatic
    <2>1. /\ AtBrace /\ Advance /\ XformsKept /\ nodeStack' = Pop(nodeStack)
          /\ Top(xformTypeStack) = STATIC
          /\ xformTypeStack' = Pop(xformTypeStack)
          /\ xformMatrix' = Top(xformStack) /\ xformStack' = Pop(xformStack)
      BY <1>6 DEF EndStatic, AtBrace, PopNode, XformsKept
    <2> QED BY <1>1, <1>2, <2>1, ClosingHistory
  <1>7. CASE EndAnimated
    <2>1. /\ AtBrace /\ Advance /\ XformsKept /\ nodeStack' = Pop(nodeStack)
          /\ Top(xformTypeStack) # STATIC
          /\ xformTypeStack' = Pop(xformTypeStack) /\ UNCHANGED <<xformMatrix, xformStack>>
      BY <1>7 DEF EndAnimated, AtBrace, PopNode, XformsKept, STATIC, ANIMATED
    <2> QED BY <1>1, <1>2, <2>1, ClosingHistory
  <1>8. CASE AtInclude /\ \E arg \in IncludeArgs : IncludeNew(arg[1], arg[2])
    <2>1. PICK f \in FileName, d \in Detail : IncludeNew(f, d)
      BY <1>8, IncludeArgsType
    <2> QED BY <1>8, <2>1, IncludeNewHistory
  <1>9. CASE IncludeReturn
    BY <1>9, IncludeReturnHistory
  <1>10. CASE PlainToken
    <2>1. History(G)'
      BY <1>10, PlainTokenHistory
    <2> QED BY <2>1 DEF Continues
  <1>11. ~(EndUnmatched \/ ParseError \/ ParseDone \/ Flatten \/ LoadReturn)
    BY <1>2 DEF EndUnmatched, ParseError, ParseDone, Flatten, LoadReturn
  <1> QED BY <1>3, <1>4, <1>5, <1>6, <1>7, <1>8, <1>9, <1>10, <1>11
          DEF Next, Include, PlainToken

LEMMA HistoryStep ==
  ASSUME IInv, PosInv, HistoryInv, [Next]_vars
  PROVE  HistoryInv'
  <1>1. scene' = scene
    BY ReaderStep
  <1> SUFFICES ASSUME status' = "parse", Balanced(scene)
               PROVE  \E H : History(H)'
    BY <1>1 DEF HistoryInv
  <1>2. CASE Load
    BY <1>2, LoadHistory
  <1>3. CASE ~Load
    <2>1. PICK G : History(G)
      BY <1>3, ReaderMoves DEF HistoryInv
    <2> QED BY <1>3, <2>1, HistoryContinues
  <1> QED BY <1>2, <1>3

-----------------------------------------------------------------------------
(* The product of the transforms of a path *)

LEMMA HasFirst ==
  ASSUME NEW K \in SUBSET Nat, K # {}
  PROVE  \E m \in K : \A j \in K : m <= j
  <1> DEFINE Less == OpToRel(<, Nat)
  <1>1. IsWellFoundedOn(Less, Nat)
    BY NatLessThanWellFounded
  <1>2. \A a, b \in Nat : <<a, b>> \in Less <=> a < b
    BY DEF OpToRel
  <1> HIDE DEF Less
  <1>3. PICK m \in K : \A j \in K : <<j, m>> \notin Less
    BY <1>1, WFMin
  <1>4. ASSUME NEW j \in K PROVE m <= j
    <2>1. j \in Nat /\ m \in Nat /\ ~(j < m)
      BY <1>2, <1>3
    <2> QED BY <2>1
  <1> QED BY <1>4

LEMMA PathProductIsTop ==
  ASSUME IInv, status = "parse", NEW G, History(G)
  PROVE  xformMatrix = PathProduct
  <1>1. PICK n \in Nat \ {0} : n = Len(G) /\ n = Len(nodeStack)
    BY HistoryFacts
  <1> DEFINE xf(k) == nodes[nodeStack[k]].xform
             Rule(p) == p = [k \in 0..n |-> IF k = 0 THEN Identity ELSE p[k - 1] \o xf(k)]
             mat == [k \in 0..n |-> IF k = 0 THEN Identity ELSE G[k].matrix]
             prod == CHOOSE p : Rule(p)
  <1>2. PathProduct = prod[n]
    BY <1>1 DEF PathProduct
  <1>3. \A k \in 1..n : G[k].matrix \in Matrix
    BY <1>1, HistoryFacts DEF Height
  <1>4. \A k \in 1..n : mat[k] = mat[k - 1] \o xf(k)
    <2> SUFFICES ASSUME NEW k \in 1..n PROVE mat[k] = mat[k - 1] \o xf(k)
      OBVIOUS
    <2>1. CASE k = 1
      <3>1. mat[k] = Identity /\ mat[k - 1] = Identity /\ xf(k) = Identity
        BY <1>1, <2>1 DEF History, Ground
      <3> QED BY <3>1 DEF Identity
    <2>2. CASE k # 1
      <3>1. k - 1 \in 1..(n - 1) /\ k - 1 + 1 = k /\ k - 1 \in 1..n
        BY <1>1, <2>2
      <3>2. Entry(G[k - 1], G[k], xf(k))
        BY <1>1, <3>1 DEF History
      <3>3. mat[k] = G[k].matrix /\ mat[k - 1] = G[k - 1].matrix /\ mat[k - 1] \in Matrix
        BY <1>1, <1>3, <3>1
      <3> HIDE DEF mat, xf
      <3>4. CASE G[k].matrix = G[k - 1].matrix /\ xf(k) = Identity
        BY <3>3, <3>4, ConcatEmptySeq DEF Identity, Matrix
      <3>5. CASE \E t \in Transform : G[k].matrix = Append(G[k - 1].matrix, t) /\ xf(k) = <<t>>
        BY <3>3, <3>5, AppendIsConcat DEF Matrix
      <3>6. CASE FileEntry(G[k - 1], G[k]) /\ xf(k) = Identity
        BY <3>4, <3>6 DEF FileEntry
      <3>7. CASE AnimatedEntry(G[k - 1], G[k]) /\ xf(k) = Identity
        BY <3>4, <3>7 DEF AnimatedEntry
      <3>8. CASE \E t \in Transform : StaticEntry(G[k - 1], G[k], t) /\ xf(k) = <<t>>
        BY <3>5, <3>8 DEF StaticEntry
      <3> QED BY <3>2, <3>6, <3>7, <3>8 DEF Entry
    <2> QED BY <2>1, <2>2
  <1> HIDE DEF xf
  <1>5. Rule(mat)
    <2>1. \A k \in 0..n : mat[k] = IF k = 0 THEN Identity ELSE mat[k - 1] \o xf(k)
      <3>1. \A k \in 0..n : k = 0 \/ k \in 1..n
        BY <1>1
      <3>2. mat[0] = Identity
        <4>1. 0 \in 0..n
          BY <1>1
        <4> QED BY <4>1
      <3> HIDE DEF mat
      <3> QED BY <1>4, <3>1, <3>2
    <2>2. mat = [k \in 0..n |-> mat[k]]
      OBVIOUS
    <2> HIDE DEF mat
    <2> QED BY <2>1, <2>2
  <1>6. Rule(prod)
    <2> HIDE DEF mat, Rule
    <2> QED BY <1>5
  <1> HIDE DEF prod, mat
  <1>7. \A k \in 1..n : prod[k] = prod[k - 1] \o xf(k)
    <2>1. \A k \in 1..n : k \in 0..n /\ k # 0
      BY <1>1
    <2> QED BY <1>6, <2>1
  <1>8. prod[0] = mat[0]
    <2>1. 0 \in 0..n
      BY <1>1
    <2> QED BY <1>6, <2>1 DEF mat
  <1> HIDE DEF Rule, prod, mat
  <1>9. prod[n] = mat[n]
    <2> DEFINE Differ == {k \in 0..n : prod[k] # mat[k]}
    <2> SUFFICES ASSUME Differ # {} PROVE FALSE
      BY <1>1
    <2>1. PICK k \in Differ : \A j \in Differ : k <= j
      <3>1. Differ \subseteq Nat
        BY <1>1
      <3> QED BY <3>1, HasFirst
    <2>2. k \in 1..n /\ k - 1 \in 0..n /\ ~(k <= k - 1)
      BY <1>1, <1>8, <2>1
    <2>3. prod[k - 1] = mat[k - 1]
      BY <2>1, <2>2
    <2> QED BY <1>4, <1>7, <2>1, <2>2, <2>3
  <1>10. mat[n] = xformMatrix
    <2>1. n # 0 /\ n \in 0..n /\ mat[n] = G[n].matrix
      BY <1>1 DEF mat
    <2>2. IsTop(G[n])
      BY <1>1, HistoryFacts DEF History
    <2> QED BY <2>1, <2>2 DEF IsTop
  <1> QED BY <1>2, <1>9, <1>10

(* In balanced files the matrix ParseXform keeps with its own stack is the *)
(* product of the transforms of the nodes on the path, whatever is         *)
(* included, shared or skipped on the way.                                 *)
THEOREM MatrixFollowsPath == Spec => []MatrixIsPathProduct
  <1>1. Init => PosInv /\ HistoryInv
    BY DEF Init, PosInv, HistoryInv
  <1>2. IInv /\ PosInv /\ HistoryInv /\ [Next]_vars => PosInv' /\ HistoryInv'
    BY PosStep, HistoryStep
  <1>3. IInv /\ HistoryInv => MatrixIsPathProduct
    BY PathProductIsTop DEF HistoryInv, MatrixIsPathProduct
  <1> QED BY <1>1, <1>2, <1>3, InductiveInvariant, PTL DEF Spec

-----------------------------------------------------------------------------
(* Which file a node is of *)

(* file f has an include that may open g *)
Includes(f, g) ==
  /\ f \in DOMAIN scene
  /\ \E i \in DOMAIN scene[f] :
       scene[f][i].op = "i?" \/ (scene[f][i].op = "i" /\ scene[f][i].file = g)

(* a link leads to a later node of the same file or into an included one *)
Link(F, p, c) ==
  /\ c \in DOMAIN F
  /\ (F[c] = F[p] /\ p < c) \/ Includes(F[p], F[c])

Filed(F) ==
  /\ F \in [NodeIds -> FileName]
  /\ \A p \in NodeIds : \A c : HasChild(nodes, p, c) => Link(F, p, c)
  /\ \A f \in DOMAIN includefileToNodeMap : F[includefileToNodeMap[f]] = f

OnPath(G, F) ==
  \A k \in 1..Len(nodeStack) : F[nodeStack[k]] = reader[G[k].level].file

FileInv ==
  status = "parse" /\ Balanced(scene) => \E G, F : History(G) /\ Filed(F) /\ OnPath(G, F)

LEMMA ActiveFile ==
  ASSUME IInv, status = "parse", NEW G, History(G), NEW F, OnPath(G, F)
  PROVE  F[sceneNode] = Frame.file
  <1>1. PICK n \in Nat \ {0} : n = Len(G) /\ n = Len(nodeStack)
    BY HistoryFacts
  <1>2. sceneNode = nodeStack[n]
    BY <1>1, ParseFacts DEF Top
  <1>3. G[n].level = Len(reader)
    BY <1>1, HistoryFacts DEF History, IsTop
  <1>4. n \in 1..Len(nodeStack)
    BY <1>1
  <1> QED BY <1>2, <1>3, <1>4, FrameFacts DEF OnPath

LEMMA IncludeToken ==
  ASSUME IInv, AtInclude, NEW arg \in IncludeArgs
  PROVE  Includes(Frame.file, arg[1])
  <1>1. status = "parse" /\ ~AtEof /\ Tok.op \in {"i", "i?"}
    BY DEF AtInclude, At
  <1>2. /\ Frame.file \in DOMAIN scene /\ scene[Frame.file] \in Seq(Token)
        /\ Frame.pos \in 1..Len(scene[Frame.file])
    <2>1. Len(reader) \in Nat \ {0}
      BY <1>1, FrameFacts
    <2>2. Len(reader) \in 1..Len(reader)
      BY <2>1
    <2> QED BY <1>1, <2>2, FrameFacts
  <1>3. Frame.pos \in DOMAIN scene[Frame.file]
    BY <1>2, LenProperties
  <1>4. Tok.op = "i" => Tok.file = arg[1]
    BY DEF IncludeArgs
  <1> QED BY <1>1, <1>2, <1>3, <1>4 DEF Includes, Tok

(* no new node, at most one new link, and that from the active node *)
LEMMA FiledKept ==
  ASSUME NEW F, Filed(F), scene' = scene, NEW d,
         Len(nodes') = Len(nodes), includefileToNodeMap' = includefileToNodeMap,
         \A p \in NodeIds : \A c : HasChild(nodes', p, c) =>
            HasChild(nodes, p, c) \/ (p = sceneNode /\ c = d /\ Link(F, p, c))
  PROVE  Filed(F)'
  <1>1. NodeIds' = NodeIds
    BY DEF NodeIds
  <1>2. \A p, c : Link(F, p, c)' <=> Link(F, p, c)
    BY DEF Link, Includes
  <1>3. \A p \in NodeIds' : \A c : HasChild(nodes', p, c) => Link(F, p, c)'
    BY <1>1, <1>2 DEF Filed
  <1>4. \A f \in DOMAIN includefileToNodeMap' : F[includefileToNodeMap'[f]] = f
    BY DEF Filed
  <1>5. F \in [NodeIds' -> FileName]
    BY <1>1 DEF Filed
  <1> QED BY <1>3, <1>4, <1>5 DEF Filed

(* a new node of file f under the active one *)
LEMMA FiledGrown ==
  ASSUME IInv, NEW F, Filed(F), scene' = scene, NEW f \in FileName, NEW new, new = Len(nodes) + 1,
         Len(nodes') = new, NewEdge(nodes, nodes', sceneNode, new),
         sceneNode \in NodeIds, F[sceneNode] = f \/ Includes(F[sceneNode], f),
         \A g \in DOMAIN includefileToNodeMap' :
           \/ g \in DOMAIN includefileToNodeMap
                /\ includefileToNodeMap'[g] = includefileToNodeMap[g]
           \/ g = f /\ includefileToNodeMap'[g] = new
  PROVE  \E E : /\ Filed(E)' /\ E[new] = f
                /\ \A n \in NodeIds : E[n] = F[n]
  <1>1. PICK E : E = [n \in 1..new |-> IF n = new THEN f ELSE F[n]]
    OBVIOUS
  <1>2. Len(nodes) \in Nat /\ NodeIds = 1..Len(nodes) /\ NodeIds' = 1..new
    BY LenProperties DEF IInv, TypeOK, GraphTypeOK, NodeIds
  <1>3. NodeIds' = NodeIds \cup {new} /\ new \notin NodeIds /\ \A n \in NodeIds : n < new
    BY <1>2
  <1>4. F \in [NodeIds -> FileName]
    BY DEF Filed
  <1>5. /\ DOMAIN E = NodeIds \cup {new} /\ E[new] = f
        /\ \A n \in NodeIds : E[n] = F[n]
    BY <1>1, <1>2, <1>3
  <1>6. E \in [NodeIds' -> FileName]
    BY <1>1, <1>2, <1>3, <1>4
  <1>7. \A p, c : Link(E, p, c)' <=> Link(E, p, c)
    BY DEF Link, Includes
  <1>8. \A p \in NodeIds : \A c : HasChild(nodes, p, c) => Link(E, p, c)
    <2> SUFFICES ASSUME NEW p \in NodeIds, NEW c, HasChild(nodes, p, c)
                 PROVE  Link(E, p, c)
      OBVIOUS
    <2>1. (F[c] = F[p] /\ p < c) \/ Includes(F[p], F[c])
      BY <1>4 DEF Filed, Link
    <2>2. c \in NodeIds
      BY <1>4 DEF Filed, Link
    <2> QED BY <1>5, <2>1, <2>2 DEF Link
  <1>9. Link(E, sceneNode, new)
    BY <1>3, <1>5 DEF Link
  <1>10. \A p \in NodeIds' : \A c : HasChild(nodes', p, c) => Link(E, p, c)'
    <2> SUFFICES ASSUME NEW p \in NodeIds', NEW c, HasChild(nodes', p, c)
                 PROVE  Link(E, p, c)
      BY <1>7
    <2>1. (p \in NodeIds /\ HasChild(nodes, p, c)) \/ (p = sceneNode /\ c = new)
      BY <1>2 DEF NewEdge
    <2> QED BY <1>8, <1>9, <2>1
  <1>11. \A g \in DOMAIN includefileToNodeMap' : E[includefileToNodeMap'[g]] = g
    <2>1. \A g \in DOMAIN includefileToNodeMap :
            includefileToNodeMap[g] \in NodeIds /\ F[includefileToNodeMap[g]] = g
      BY DEF IInv, TypeOK, GraphTypeOK, Filed
    <2> QED BY <1>5, <2>1
  <1>12. Filed(E)'
    BY <1>6, <1>10, <1>11 DEF Filed
  <1> QED BY <1>5, <1>12

NoNewLink ==
  /\ scene' = scene /\ Len(nodes') = Len(nodes)
  /\ includefileToNodeMap' = includefileToNodeMap
  /\ \A p \in NodeIds : \A c : HasChild(nodes', p, c) => HasChild(nodes, p, c)

LEMMA NoNewLinkFiled ==
  ASSUME NEW F, Filed(F), NoNewLink
  PROVE  Filed(F)'
  BY FiledKept DEF NoNewLink

LEMMA MeshLinks ==
  ASSUME IInv, ParseMesh
  PROVE  NoNewLink /\ nodeStack' = nodeStack
  <1> DEFINE node == [nodes[sceneNode] EXCEPT !.mesh = Tok.mesh, !.material = extMaterial,
                                              !.textureFilename = Tok.tex]
  <1>1. status = "parse" /\ GraphTypeOK
    BY DEF ParseMesh, At, IInv, TypeOK
  <1>2. sceneNode \in 1..Len(nodes) /\ nodes \in Seq(NodeRecord(Len(nodes)))
    BY <1>1, ParseFacts DEF GraphTypeOK, NodeIds
  <1>3. nodes[sceneNode] \in NodeRecord(Len(nodes))
    BY <1>2, ElementOfSeq
  <1>4. nodes' = nodes \/ nodes' = [nodes EXCEPT ![sceneNode] = node]
    BY <1>2, <1>3 DEF ParseMesh, NodeRecord
  <1>5. node.children = nodes[sceneNode].children
    BY <1>3 DEF NodeRecord
  <1> HIDE DEF node
  <1>6. Len(nodes') = Len(nodes) /\ \A p \in NodeIds : nodes'[p].children = nodes[p].children
    BY <1>2, <1>4, <1>5, LenProperties DEF NodeIds
  <1>7. \A p \in NodeIds : \A c : HasChild(nodes', p, c) => HasChild(nodes, p, c)
    BY <1>6 DEF HasChild
  <1> QED BY <1>6, <1>7 DEF NoNewLink, ParseMesh

(* what a parsing step makes of the stack of nodes *)
StackStep(E) ==
  \/ nodeStack' = nodeStack
  \/ Len(nodeStack) >= 2 /\ nodeStack' = Pop(nodeStack)
  \/ \E new : nodeStack' = Append(nodeStack, new) /\ E[new] = reader'[Len(reader')].file

FiledStepFor(F) ==
  \E E : Filed(E)' /\ (\A n \in NodeIds : E[n] = F[n]) /\ StackStep(E)

LEMMA PushedNode ==
  ASSUME IInv, status = "parse", NEW F, Filed(F), scene' = scene,
         NEW f \in FileName, F[sceneNode] = f \/ Includes(F[sceneNode], f),
         NEW name \in XformName \cup {"null", "static"}, NEW xform \in Matrix,
         NEW scopes \in Seq(FileName \cup {"root"}), scopes # << >>,
         PushNode(name, xform, scopes), name = "null" => Top(scopes) = f,
         reader'[Len(reader')].file = f
  PROVE  FiledStepFor(F)
  <1>1. GraphTypeOK /\ sceneNode \in NodeIds
    BY ParseFacts DEF IInv, TypeOK
  <1>2. PICK new : new = Len(nodes) + 1
    OBVIOUS
  <1>3. /\ NewEdge(nodes, nodes', sceneNode, new) /\ Len(nodes') = new
        /\ nodeStack' = Append(nodeStack, new)
    BY <1>1, <1>2, PushNodeShape
  <1>4. \A g \in DOMAIN includefileToNodeMap' :
          \/ g \in DOMAIN includefileToNodeMap
               /\ includefileToNodeMap'[g] = includefileToNodeMap[g]
          \/ g = f /\ includefileToNodeMap'[g] = new
    <2>1. includefileToNodeMap' = Mapped(name, Top(scopes), new)
      BY <1>2 DEF PushNode
    <2> QED BY <2>1 DEF Mapped, Put
  <1>5. PICK E : /\ Filed(E)' /\ E[new] = f
                 /\ \A n \in NodeIds : E[n] = F[n]
    BY <1>1, <1>2, <1>3, <1>4, FiledGrown
  <1> QED BY <1>3, <1>5 DEF FiledStepFor, StackStep

LEMMA SameFile ==
  ASSUME IInv, status = "parse"
  PROVE  /\ Advanced \in Seq([file : DOMAIN scene, pos : Nat \ {0}])
         /\ Advanced[Len(Advanced)].file = Frame.file
  <1>1. PICK n \in Nat \ {0} : n = Len(reader)
    BY FrameFacts
  <1>2. Len(Advanced) = n /\ Advanced \in Seq([file : DOMAIN scene, pos : Nat \ {0}])
    BY <1>1, AdvancedFacts
  <1>3. n \in 1..n /\ Frame = reader[n]
    BY <1>1, FrameFacts
  <1>4. Advanced[n].file = reader[n].file
    BY <1>1, <1>3, AdvancedFacts
  <1> QED BY <1>2, <1>3, <1>4

(* every step of the parser that does not fail files its nodes *)
LEMMA FiledStep ==
  ASSUME IInv, status = "parse", [Next]_vars, status' # "failed",
         NEW G, History(G), NEW F, Filed(F), OnPath(G, F)
  PROVE  FiledStepFor(F)
  <1>0. F[sceneNode] = Frame.file /\ scene' = scene
    BY ActiveFile, ReaderStep
  <1>00. /\ Frame.file \in FileName /\ Frame = reader[Len(reader)]
    <2>1. Len(reader) \in Nat \ {0}
      BY FrameFacts
    <2>2. Len(reader) \in 1..Len(reader)
      BY <2>1
    <2> QED BY <2>2, FrameFacts
  <1>1. CASE NoNewLink /\ (nodeStack' = nodeStack \/ (Len(nodeStack) >= 2 /\ nodeStack' = Pop(nodeStack)))
    <2>1. Filed(F)'
      BY <1>1, NoNewLinkFiled
    <2> QED BY <1>1, <2>1 DEF FiledStepFor, StackStep
  <1>2. CASE UNCHANGED <<scene, graphVars>>
    BY <1>1, <1>2 DEF graphVars, NoNewLink
  <1>3. CASE StaticXform
    <2>1. GraphTypeOK /\ ReaderTypeOK /\ ~AtEof
      BY <1>3 DEF StaticXform, At, IInv, TypeOK
    <2>2. Tok \in Token /\ Tok.op = "xs"
      BY <1>3, <2>1, ParseFacts, TokenType DEF IInv, StaticXform
    <2>3. <<Tok.xf>> \in Matrix
      <3>1. Tok.xf \in Transform
        BY <2>2 DEF Token
      <3> QED BY <3>1 DEF Matrix
    <2>4. reader' = Advanced /\ PushNode("static", <<Tok.xf>>, fileScopeStack)
      BY <1>3 DEF StaticXform, Advance
    <2>5. reader'[Len(reader')].file = Frame.file
      BY <2>4, SameFile
    <2> QED BY <1>0, <1>00, <2>1, <2>3, <2>4, <2>5, ParseFacts, PushedNode DEF GraphTypeOK
  <1>4. CASE AnimatedXform
    <2>1. GraphTypeOK /\ ReaderTypeOK /\ ~AtEof
      BY <1>4 DEF AnimatedXform, At, IInv, TypeOK
    <2>2. Tok \in Token /\ Tok.op = "x"
      BY <1>4, <2>1, ParseFacts, TokenType DEF IInv, AnimatedXform
    <2>3. Tok.name \in XformName /\ Tok.name # "null" /\ Identity \in Matrix
      BY <2>2, NamesAssumption, EmptySeq DEF Token, Matrix, Identity
    <2>4. reader' = Advanced /\ PushNode(Tok.name, Identity, fileScopeStack)
      BY <1>4 DEF AnimatedXform, Advance
    <2>5. reader'[Len(reader')].file = Frame.file
      BY <2>4, SameFile
    <2> QED BY <1>0, <1>00, <2>1, <2>3, <2>4, <2>5, ParseFacts, PushedNode DEF GraphTypeOK
  <1>5. CASE EndStatic \/ EndAnimated
    <2>1. xformTypeStack # << >>
      BY <1>5 DEF EndStatic, EndAnimated
    <2>2. Len(nodeStack) >= 2
      BY <2>1, OpenTransform
    <2>3. PopNode
      BY <1>5 DEF EndStatic, EndAnimated
    <2> QED BY <1>0, <1>1, <2>2, <2>3 DEF PopNode, NoNewLink
  <1>6. CASE IncludeReturn
    <2>1. /\ Len(nodeStack) = Len(xformTypeStack) + Len(fileScopeStack)
          /\ Len(fileScopeStack) = Len(reader) /\ Len(reader) > 1
      BY <1>6 DEF IInv, StacksInStep, IncludeReturn
    <2>2. Len(xformTypeStack) \in Nat /\ Len(reader) \in Nat
      BY LenProperties DEF IInv, TypeOK, XformTypeOK, ReaderTypeOK
    <2> QED BY <1>0, <1>1, <1>6, <2>1, <2>2 DEF IncludeReturn, PopNode, NoNewLink
  <1>7. CASE AtInclude /\ \E arg \in IncludeArgs : IncludeSeen(arg[1])
    <2>1. PICK arg \in IncludeArgs : IncludeSeen(arg[1])
      BY <1>7
    <2>2. PICK f : f = arg[1]
      OBVIOUS
    <2>3. /\ nodes' = AddChild(nodes, sceneNode, includefileToNodeMap[f])
          /\ UNCHANGED <<nodeStack, includefileToNodeMap>>
          /\ f \in DOMAIN includefileToNodeMap
      BY <2>1, <2>2 DEF IncludeSeen
    <2>4. /\ Len(nodes) \in Nat /\ includefileToNodeMap[f] \in 1..Len(nodes)
          /\ sceneNode \in 1..Len(nodes) /\ nodes \in Seq(NodeRecord(Len(nodes)))
      BY <2>3, ParseFacts, LenProperties DEF IInv, TypeOK, GraphTypeOK, NodeIds
    <2>5. /\ NewEdge(nodes, nodes', sceneNode, includefileToNodeMap[f])
          /\ Len(nodes') = Len(nodes)
      BY <2>3, <2>4, AddChildEdge, AddChildFacts
    <2>6. Link(F, sceneNode, includefileToNodeMap[f])
      <3>1. Includes(F[sceneNode], f)
        BY <1>0, <1>7, <2>2, IncludeToken
      <3>2. F[includefileToNodeMap[f]] = f /\ includefileToNodeMap[f] \in DOMAIN F
        BY <2>3, <2>4 DEF Filed, NodeIds
      <3> QED BY <3>1, <3>2 DEF Link
    <2>7. \A p \in NodeIds : \A c : HasChild(nodes', p, c) =>
            HasChild(nodes, p, c)
              \/ (p = sceneNode /\ c = includefileToNodeMap[f] /\ Link(F, p, c))
      BY <2>5, <2>6 DEF NewEdge, NodeIds
    <2>8. Filed(F)'
      BY <1>0, <2>3, <2>5, <2>7, FiledKept
    <2> QED BY <2>3, <2>8 DEF FiledStepFor, StackStep
  <1>8. CASE AtInclude /\ \E arg \in IncludeArgs : IncludeNew(arg[1], arg[2])
    <2>1. PICK arg \in IncludeArgs : IncludeNew(arg[1], arg[2])
      BY <1>8
    <2>2. PICK f : f = arg[1]
      OBVIOUS
    <2>3. f \in FileName /\ Includes(F[sceneNode], f)
      BY <1>0, <1>8, <2>2, IncludeArgsType, IncludeToken
    <2>4. /\ fileScopeStack' = Append(fileScopeStack, f)
          /\ PushNode("null", Identity, fileScopeStack')
          /\ reader' = Append(Advanced, [file |-> f, pos |-> 1]) /\ f \in DOMAIN scene
      BY <2>1, <2>2 DEF IncludeNew
    <2>5. /\ fileScopeStack' \in Seq(FileName \cup {"root"}) /\ fileScopeStack' # << >>
          /\ Top(fileScopeStack') = f /\ Identity \in Matrix
      BY <2>3, <2>4, PushFacts, AppendProperties, EmptySeq
         DEF IInv, TypeOK, GraphTypeOK, Matrix, Identity
    <2>6. reader'[Len(reader')].file = f
      <3>1. Advanced \in Seq([file : DOMAIN scene, pos : Nat \ {0}])
        BY SameFile
      <3>2. PICK opened \in [file : DOMAIN scene, pos : Nat \ {0}] :
              reader' = Append(Advanced, opened) /\ opened.file = f
        BY <2>4
      <3>3. Len(reader') = Len(Advanced) + 1 /\ reader'[Len(Advanced) + 1] = opened
        BY <3>1, <3>2, AppendProperties
      <3> QED BY <3>2, <3>3
    <2> QED BY <1>0, <2>3, <2>4, <2>5, <2>6, PushedNode
  <1>9. CASE AtInclude /\ \E arg \in IncludeArgs : IncludeSkip(arg[1], arg[2])
    BY <1>2, <1>9 DEF IncludeSkip, Stays
  <1>10. CASE ParseMesh
    BY <1>1, <1>10, MeshLinks
  <1>11. CASE LeafStep
    BY <1>2, <1>11, LeafStepGraph
  <1>12. CASE UNCHANGED vars
    BY <1>2, <1>12 DEF vars
  <1>13. ~Load
    BY DEF Load
  <1> QED BY <1>3, <1>4, <1>5, <1>6, <1>7, <1>8, <1>9, <1>10, <1>11, <1>12, <1>13, NextCases

LEMMA FramesFile ==
  ASSUME IInv, status = "parse", ReaderMove
  PROVE  \A r \in 1..Len(reader) : r \in 1..Len(reader') => reader'[r].file = reader[r].file
  <1> SUFFICES ASSUME NEW r \in 1..Len(reader), r \in 1..Len(reader')
               PROVE  reader'[r].file = reader[r].file
    OBVIOUS
  <1>1. PICK n \in Nat \ {0} : n = Len(reader)
    BY FrameFacts
  <1>2. /\ Advanced \in Seq([file : DOMAIN scene, pos : Nat \ {0}]) /\ Len(Advanced) = n
        /\ \A k \in 1..n : Advanced[k].file = reader[k].file
    BY <1>1, AdvancedFacts
  <1>3. CASE \E f \in FileName : reader' = Append(Advanced, [file |-> f, pos |-> 1])
                                  /\ f \in DOMAIN scene
    <2>1. PICK f \in DOMAIN scene : reader' = Append(Advanced, [file |-> f, pos |-> 1])
      BY <1>3
    <2> QED BY <1>1, <1>2, <2>1, AppendProperties
  <1>4. CASE reader' = Pop(reader)
    <2>1. /\ Len(Pop(reader)) = Len(reader) - 1
          /\ \A k \in 1..(Len(reader) - 1) : Pop(reader)[k] = reader[k]
      BY ParseFacts, PopFacts DEF IInv, TypeOK, ReaderTypeOK
    <2> QED BY <1>1, <1>4, <2>1
  <1> QED BY <1>1, <1>2, <1>3, <1>4 DEF ReaderMove

LEMMA OnPathStep ==
  ASSUME IInv, status = "parse", ReaderMove, NEW G, NEW H, NEW F, NEW E,
         History(G), History(H)', Continues(G, H), OnPath(G, F),
         \A n \in NodeIds : E[n] = F[n], StackStep(E)
  PROVE  OnPath(H, E)'
  <1>1. PICK m \in Nat \ {0} : m = Len(G) /\ m = Len(nodeStack)
    BY HistoryFacts
  <1>2. \A k \in 1..m : nodeStack[k] \in NodeIds
    BY <1>1, HistoryFacts DEF NodeIds
  <1>3. Len(H) = Len(nodeStack') /\ H \in Seq(Height) /\ Len(H) \in Nat
    BY LenProperties DEF History
  <1>4. H[Len(H)].level = Len(reader')
    BY DEF History, IsTop, Top
  <1>5. /\ \A k \in 1..Len(H) : H[k].level \in 1..Len(reader')
        /\ \A k \in 1..m : G[k].level \in 1..Len(reader)
    <2>1. ASSUME NEW k \in 1..Len(H) PROVE H[k].level \in 1..Len(reader')
      <3>1. H[k].level \in Nat \ {0} /\ H[Len(H)].level \in Nat
        <4>1. Len(H) \in 1..Len(H)
          BY <1>3
        <4>2. H[k] \in Height /\ H[Len(H)] \in Height
          BY <1>3, <4>1, ElementOfSeq
        <4> QED BY <4>2 DEF Height
      <3>2. H[k].level <= H[Len(H)].level
        <4>1. \A i, j \in 1..Len(H) : i <= j => H[i].level <= H[j].level
          BY DEF History
        <4>2. Len(H) \in 1..Len(H) /\ k <= Len(H)
          BY <1>3
        <4> QED BY <4>1, <4>2
      <3> QED BY <1>4, <3>1, <3>2
    <2>2. ASSUME NEW k \in 1..m PROVE G[k].level \in 1..Len(reader)
      <3>1. Len(reader) \in Nat
        BY FrameFacts
      <3>2. G[k].level <= Len(reader) /\ G[k].level \in Nat \ {0}
        BY <1>1, HistoryFacts
      <3> QED BY <3>1, <3>2
    <2> QED BY <2>1, <2>2
  <1>6. /\ \A k \in 1..Len(nodeStack') : k \in 1..m => nodeStack'[k] = nodeStack[k]
        /\ \A k \in 1..Len(nodeStack') : k \notin 1..m =>
             k = Len(nodeStack') /\ E[nodeStack'[k]] = reader'[Len(reader')].file
    <2>1. CASE nodeStack' = nodeStack
      BY <1>1, <2>1
    <2>2. CASE nodeStack' = Pop(nodeStack)
      <3>1. /\ Len(Pop(nodeStack)) = m - 1
            /\ \A k \in 1..(m - 1) : Pop(nodeStack)[k] = nodeStack[k]
        BY <1>1, ParseFacts, PopFacts DEF IInv, TypeOK, GraphTypeOK
      <3> QED BY <1>1, <2>2, <3>1
    <2>3. CASE \E new : nodeStack' = Append(nodeStack, new) /\ E[new] = reader'[Len(reader')].file
      <3>1. PICK new : nodeStack' = Append(nodeStack, new) /\ E[new] = reader'[Len(reader')].file
        BY <2>3
      <3>2. /\ Len(nodeStack') = m + 1 /\ nodeStack'[m + 1] = new
            /\ \A k \in 1..m : nodeStack'[k] = nodeStack[k]
        BY <1>1, <3>1, AppendProperties DEF IInv, TypeOK, GraphTypeOK
      <3> QED BY <1>1, <3>1, <3>2
    <2> QED BY <2>1, <2>2, <2>3 DEF StackStep
  <1>7. ASSUME NEW k \in 1..Len(nodeStack')
        PROVE  E[nodeStack'[k]] = reader'[H[k].level].file
    <2>1. CASE k \in 1..m
      <3>1. H[k] = G[k]
        BY <1>1, <1>3, <2>1 DEF Continues
      <3>2. E[nodeStack'[k]] = F[nodeStack[k]]
        BY <1>2, <1>6, <2>1
      <3>3. F[nodeStack[k]] = reader[G[k].level].file
        BY <1>1, <2>1 DEF OnPath
      <3>4. reader'[G[k].level].file = reader[G[k].level].file
        BY <1>3, <1>5, <2>1, <3>1, FramesFile
      <3> QED BY <3>1, <3>2, <3>3, <3>4
    <2>2. CASE k \notin 1..m
      BY <1>3, <1>4, <1>6, <2>2
    <2> QED BY <2>1, <2>2
  <1> QED BY <1>7 DEF OnPath

LEMMA LoadFiles ==
  ASSUME IInv, Load, status' = "parse"
  PROVE  \E G, F : History(G)' /\ Filed(F)' /\ OnPath(G, F)'
  <1>1. PICK G : History(G)'
    BY LoadHistory
  <1>2. PICK F : F = [n \in 1..1 |-> Main]
    OBVIOUS
  <1>3. /\ nodes = << >> /\ nodes' = <<NewNode("root", "root", Identity)>> /\ nodeStack' = <<1>>
        /\ reader' = <<[file |-> Main, pos |-> 1]>>
        /\ includefileToNodeMap' = includefileToNodeMap
    BY DEF Load, IInv, IdleEmpty
  <1>4. NodeIds' = 1..1 /\ Len(nodeStack') = 1 /\ nodeStack'[1] = 1 /\ reader'[1].file = Main
    BY <1>3 DEF NodeIds
  <1>5. DOMAIN includefileToNodeMap = {}
    <2>1. NodeIds = {}
      BY <1>3 DEF NodeIds
    <2> QED BY <2>1 DEF IInv, TypeOK, GraphTypeOK
  <1>6. \A c : ~HasChild(nodes', 1, c)
    <2>1. nodes'[1].children = << >>
      BY <1>3 DEF NewNode
    <2> QED BY <2>1 DEF HasChild
  <1>7. Filed(F)'
    <2>1. F \in [NodeIds' -> FileName]
      BY <1>2, <1>4, ScenesAssumption
    <2>2. \A p \in NodeIds' : p = 1
      BY <1>4
    <2> QED BY <1>3, <1>5, <1>6, <2>1, <2>2 DEF Filed
  <1>8. OnPath(G, F)'
    <2>1. G[1].level = 1
      BY <1>1 DEF History, Ground
    <2>2. F[1] = Main
      BY <1>2
    <2>3. \A k \in 1..Len(nodeStack') : k = 1
      BY <1>4
    <2> QED BY <1>4, <2>1, <2>2, <2>3 DEF OnPath
  <1> QED BY <1>1, <1>7, <1>8

LEMMA FileStep ==
  ASSUME IInv, PosInv, FileInv, [Next]_vars
  PROVE  FileInv'
  <1>1. scene' = scene
    BY ReaderStep
  <1> SUFFICES ASSUME status' = "parse", Balanced(scene)
               PROVE  \E G, F : History(G)' /\ Filed(F)' /\ OnPath(G, F)'
    BY <1>1 DEF FileInv
  <1>2. CASE Load
    BY <1>2, LoadFiles
  <1>3. CASE ~Load
    <2>1. status = "parse" /\ ReaderMove
      BY <1>3, ReaderMoves
    <2>2. PICK G, F : History(G) /\ Filed(F) /\ OnPath(G, F)
      BY <2>1 DEF FileInv
    <2>3. PICK H : History(H)' /\ Continues(G, H)
      BY <1>3, <2>2, HistoryContinues
    <2>4. PICK E : Filed(E)' /\ (\A n \in NodeIds : E[n] = F[n]) /\ StackStep(E)
      BY <2>1, <2>2, FiledStep DEF FiledStepFor
    <2>5. OnPath(H, E)'
      BY <2>1, <2>2, <2>3, <2>4, OnPathStep
    <2> QED BY <2>3, <2>4, <2>5
  <1> QED BY <1>2, <1>3

-----------------------------------------------------------------------------
(* A graph whose links all lead from lower to higher layers has no cycle,  *)
(* and a path in it no more nodes than there are                           *)

Layers(ns, h) ==
  /\ h \in [1..Len(ns) -> 1..Len(ns)]
  /\ \A p \in 1..Len(ns) : \A c : HasChild(ns, p, c) => c \in 1..Len(ns) /\ h[p] < h[c]

(* whatever falls along every link gives layers: a node's layer is the     *)
(* number of nodes at least as high                                        *)
LEMMA LayersFromRank ==
  ASSUME NEW ns, Len(ns) \in Nat, NEW m \in [1..Len(ns) -> Nat],
         \A p \in 1..Len(ns) : \A c : HasChild(ns, p, c) => c \in 1..Len(ns) /\ m[c] < m[p]
  PROVE  \E h : Layers(ns, h)
  <1> DEFINE N == Len(ns)
             Above(n) == {x \in 1..N : m[n] <= m[x]}
             h == [n \in 1..N |-> Cardinality(Above(n))]
  <1>1. IsFiniteSet(1..N) /\ Cardinality(1..N) = N
    BY FS_Interval
  <1>2. \A n \in 1..N : /\ IsFiniteSet(Above(n)) /\ Cardinality(Above(n)) \in Nat
                        /\ Cardinality(Above(n)) <= N
    BY <1>1, FS_Subset, FS_CardinalityType
  <1>3. \A n \in 1..N : n \in Above(n)
    OBVIOUS
  <1>4. \A n \in 1..N : Cardinality(Above(n)) \in 1..N
    <2> SUFFICES ASSUME NEW n \in 1..N PROVE Cardinality(Above(n)) \in 1..N
      OBVIOUS
    <2>1. Above(n) # {}
      BY <1>3
    <2> HIDE DEF Above, N
    <2>2. Cardinality(Above(n)) # 0
      BY <1>2, <2>1, FS_EmptySet
    <2> QED BY <1>2, <2>2
  <1>5. ASSUME NEW p \in 1..N, NEW c \in 1..N, m[c] < m[p]
        PROVE  Cardinality(Above(p)) < Cardinality(Above(c))
    <2>1. Above(p) \subseteq Above(c)
      BY <1>5
    <2>2. c \in Above(c) /\ c \notin Above(p)
      BY <1>5
    <2> HIDE DEF Above
    <2>3. Above(p) # Above(c)
      BY <2>2
    <2>4. Cardinality(Above(p)) < Cardinality(Above(c))
      BY <1>2, <2>1, <2>3, FS_Subset
    <2> QED BY <2>4
  <1> HIDE DEF Above
  <1>6. h \in [1..N -> 1..N]
    BY <1>4
  <1>7. \A p \in 1..N : \A c : HasChild(ns, p, c) => c \in 1..N /\ h[p] < h[c]
    BY <1>5
  <1>8. Layers(ns, h)
    <2> HIDE DEF h
    <2> QED BY <1>6, <1>7 DEF Layers
  <1> QED BY <1>8

LEMMA GoodLayers ==
  ASSUME NEW ns, NEW N \in Nat, Len(ns) = N, NEW F \in [1..N -> FileName],
         \A p \in 1..N : \A c : HasChild(ns, p, c) => Link(F, p, c),
         AcyclicIncludes(scene)
  PROVE  \E h : Layers(ns, h)
  <1>1. PICK rank \in [FileName -> 0..Cardinality(FileName)] :
          \A f \in DOMAIN scene : \A i \in DOMAIN scene[f] :
            /\ scene[f][i].op # "i?"
            /\ scene[f][i].op = "i" => rank[scene[f][i].file] < rank[f]
    BY DEF AcyclicIncludes
  <1>2. \A n \in 1..N : rank[F[n]] \in Nat
    OBVIOUS
  <1>3. PICK m : m = [n \in 1..N |-> rank[F[n]] * (N + 1) + (N - n)]
    OBVIOUS
  <1>4. m \in [1..N -> Nat]
    <2>1. \A n \in 1..N : rank[F[n]] * (N + 1) \in Nat /\ N - n \in Nat
      BY <1>2
    <2> QED BY <1>3, <2>1
  <1>5. ASSUME NEW p \in 1..N, NEW c, HasChild(ns, p, c)
        PROVE  c \in 1..N /\ m[c] < m[p]
    <2>1. c \in 1..N /\ ((F[c] = F[p] /\ p < c) \/ Includes(F[p], F[c]))
      BY <1>5 DEF Link
    <2>2. CASE F[c] = F[p] /\ p < c
      <3>1. PICK r \in Nat : r = rank[F[p]] * (N + 1)
        BY <1>2
      <3>2. m[p] = r + (N - p) /\ m[c] = r + (N - c)
        BY <1>3, <2>1, <2>2, <3>1
      <3> QED BY <2>1, <2>2, <3>2
    <2>3. CASE Includes(F[p], F[c])
      <3>1. rank[F[c]] < rank[F[p]]
        BY <1>1, <2>3 DEF Includes
      <3>2. PICK a \in Nat, b \in Nat : a = rank[F[c]] /\ b = rank[F[p]]
        BY <1>2, <2>1
      <3>3. m[p] = b * (N + 1) + (N - p) /\ m[c] = a * (N + 1) + (N - c)
        BY <1>3, <2>1, <3>2
      <3>4. a * (N + 1) + (N + 1) <= b * (N + 1)
        <4>1. a + 1 <= b
          BY <3>1, <3>2
        <4>2. PICK d \in Nat : b = a + 1 + d
          <5>1. b - (a + 1) \in Nat /\ b = a + 1 + (b - (a + 1))
            BY <4>1
          <5> QED BY <5>1
        <4>3. (a + 1 + d) * (N + 1) = a * (N + 1) + (N + 1) + d * (N + 1)
          OBVIOUS
        <4>4. d * (N + 1) \in Nat /\ a * (N + 1) \in Nat
          OBVIOUS
        <4> QED BY <4>2, <4>3, <4>4
      <3>5. PICK x \in Nat, y \in Nat : x = a * (N + 1) /\ y = b * (N + 1)
        OBVIOUS
      <3>6. x + (N + 1) <= y /\ m[p] = y + (N - p) /\ m[c] = x + (N - c)
        BY <3>3, <3>4, <3>5
      <3>7. p <= N /\ c >= 1
        BY <2>1
      <3> QED BY <2>1, <3>6, <3>7
    <2> QED BY <2>1, <2>2, <2>3
  <1> QED BY <1>4, <1>5, LayersFromRank

FirstChild(ns, x, y) == ns[x].children # << >> /\ y = ns[x].children[1]

(* the nodes k first children below n *)
FrontPath(ns, n, k, q) ==
  /\ q \in [0..k -> 1..Len(ns)] /\ q[0] = n
  /\ \A i \in 0..(k - 1) : FirstChild(ns, q[i], q[i + 1])

LEMMA FirstChildFacts ==
  ASSUME NEW N \in Nat, NEW ns \in Seq(NodeRecord(N)), Len(ns) = N, NEW x \in 1..N, NEW y,
         FirstChild(ns, x, y)
  PROVE  y \in 1..N /\ HasChild(ns, x, y)
  <1>1. ns[x] \in NodeRecord(N)
    BY ElementOfSeq
  <1>2. ns[x].children \in Seq(1..N)
    BY <1>1 DEF NodeRecord
  <1>3. Len(ns[x].children) \in Nat \ {0} /\ DOMAIN ns[x].children = 1..Len(ns[x].children)
    BY <1>2, EmptySeq, LenProperties DEF FirstChild
  <1>4. 1 \in DOMAIN ns[x].children /\ ns[x].children[1] \in 1..N
    BY <1>2, <1>3, ElementOfSeq
  <1> QED BY <1>4 DEF FirstChild, HasChild

(* the nodes k steps of first children away from n, for every k up to N *)
Front(ns, N, n) == [k \in 0..N |-> {x \in 1..N : \E q : FrontPath(ns, n, k, q) /\ q[k] = x}]

FrontRuleFor(ns, N, n, g) ==
  /\ g[0] = {n}
  /\ \A k \in 1..N : \A y : y \in g[k] <=> \E x \in g[k - 1] : FirstChild(ns, x, y)

LEMMA FrontRule ==
  ASSUME NEW N \in Nat, NEW ns \in Seq(NodeRecord(N)), Len(ns) = N, NEW n \in 1..N
  PROVE  FrontRuleFor(ns, N, n, Front(ns, N, n))
  <1> SUFFICES ASSUME NEW g, g = Front(ns, N, n)
               PROVE  /\ g[0] = {n}
                      /\ \A k \in 1..N : \A y :
                            y \in g[k] <=> \E x \in g[k - 1] : FirstChild(ns, x, y)
    BY DEF FrontRuleFor
  <1> USE DEF Front
  <1>1. g[0] = {n}
    <2>1. 0 \in 0..N /\ 0..0 = {0} /\ 0..(0 - 1) = {}
      OBVIOUS
    <2>2. g[0] = {x \in 1..N : \E q : FrontPath(ns, n, 0, q) /\ q[0] = x}
      BY <2>1
    <2>3. \A q : FrontPath(ns, n, 0, q) => q[0] = n
      BY DEF FrontPath
    <2>4. FrontPath(ns, n, 0, [i \in 0..0 |-> n]) /\ [i \in 0..0 |-> n][0] = n
      BY <2>1 DEF FrontPath
    <2> QED BY <2>2, <2>3, <2>4
  <1>2. ASSUME NEW k \in 1..N, NEW y, y \in g[k]
        PROVE  \E x \in g[k - 1] : FirstChild(ns, x, y)
    <2>1. PICK q : FrontPath(ns, n, k, q) /\ q[k] = y
      <3>1. k \in 0..N
        OBVIOUS
      <3> QED BY <1>2, <3>1
    <2>2. PICK p : p = [i \in 0..(k - 1) |-> q[i]]
      OBVIOUS
    <2>3. \A i \in 0..(k - 1) : i \in 0..k /\ p[i] = q[i]
      BY <2>2
    <2>4. 0 \in 0..(k - 1) /\ k - 1 \in 0..(k - 1) /\ k - 1 \in 0..N /\ k - 1 + 1 = k
      OBVIOUS
    <2>5. p \in [0..(k - 1) -> 1..N]
      BY <2>1, <2>2, <2>3 DEF FrontPath
    <2>6. FrontPath(ns, n, k - 1, p)
      <3>1. \A i \in 0..(k - 1 - 1) : i \in 0..(k - 1) /\ i + 1 \in 0..(k - 1)
        OBVIOUS
      <3>2. \A i \in 0..(k - 1 - 1) : FirstChild(ns, p[i], p[i + 1])
        BY <2>1, <2>3, <3>1 DEF FrontPath
      <3>3. p[0] = n
        BY <2>1, <2>3, <2>4 DEF FrontPath
      <3> QED BY <2>5, <3>2, <3>3 DEF FrontPath
    <2>7. p[k - 1] \in 1..N
      BY <2>4, <2>5
    <2>8. p[k - 1] \in g[k - 1]
      BY <2>4, <2>6, <2>7
    <2>9. FirstChild(ns, p[k - 1], y)
      <3>1. FirstChild(ns, q[k - 1], q[k - 1 + 1])
        BY <2>1, <2>4 DEF FrontPath
      <3> QED BY <2>1, <2>3, <2>4, <3>1
    <2> QED BY <2>8, <2>9
  <1>3. ASSUME NEW k \in 1..N, NEW y, NEW x \in g[k - 1], FirstChild(ns, x, y)
        PROVE  y \in g[k]
    <2>1. k - 1 \in 0..N /\ k \in 0..N /\ k \in 0..k /\ k - 1 \in 0..(k - 1)
      OBVIOUS
    <2>2. PICK q : FrontPath(ns, n, k - 1, q) /\ q[k - 1] = x
      BY <2>1
    <2>3. x \in 1..N
      BY <2>1
    <2>4. y \in 1..N
      BY <1>3, <2>3, FirstChildFacts
    <2>5. PICK p : p = [i \in 0..k |-> IF i = k THEN y ELSE q[i]]
      OBVIOUS
    <2>6. \A i \in 0..(k - 1) : i \in 0..k /\ i # k /\ p[i] = q[i]
      BY <2>5
    <2>7. p[k] = y
      BY <2>1, <2>5
    <2>8. p \in [0..k -> 1..N]
      <3>1. \A i \in 0..k : i = k \/ i \in 0..(k - 1)
        OBVIOUS
      <3>2. q \in [0..(k - 1) -> 1..N]
        BY <2>2 DEF FrontPath
      <3> QED BY <2>4, <2>5, <3>1, <3>2
    <2>9. FrontPath(ns, n, k, p)
      <3>1. ASSUME NEW i \in 0..(k - 1)
            PROVE  FirstChild(ns, p[i], p[i + 1])
        <4>1. CASE i = k - 1
          BY <1>3, <2>2, <2>6, <2>7, <4>1
        <4>2. CASE i # k - 1
          <5>1. i \in 0..(k - 1 - 1) /\ i + 1 \in 0..(k - 1)
            BY <4>2
          <5>2. FirstChild(ns, q[i], q[i + 1])
            BY <2>2, <5>1 DEF FrontPath
          <5> QED BY <2>6, <5>1, <5>2
        <4> QED BY <4>1, <4>2
      <3>2. p[0] = n
        <4>1. 0 \in 0..(k - 1)
          OBVIOUS
        <4> QED BY <2>2, <2>6, <4>1 DEF FrontPath
      <3> QED BY <2>8, <3>1, <3>2 DEF FrontPath
    <2> QED BY <2>1, <2>4, <2>7, <2>9
  <1> QED BY <1>1, <1>2, <1>3

LEMMA LayersStopFront ==
  ASSUME NEW N \in Nat, NEW ns \in Seq(NodeRecord(N)), Len(ns) = N, NEW n \in 1..N,
         NEW h, Layers(ns, h)
  PROVE  ~FrontDiverges(ns, n)
  <1> DEFINE Rule(f) == f = [k \in 0..N |->
                 IF k = 0 THEN {n}
                 ELSE {ns[m].children[1] : m \in {x \in f[k - 1] : ns[x].children # << >>}}]
             hop == CHOOSE f : Rule(f)
  <1>1. FrontDiverges(ns, n) <=> hop[N] # {}
    BY DEF FrontDiverges
  <1>2. PICK g : g = Front(ns, N, n)
    OBVIOUS
  <1>3. Rule(g)
    <2>1. /\ g[0] = {n}
          /\ \A k \in 1..N : \A y : y \in g[k] <=> \E x \in g[k - 1] : FirstChild(ns, x, y)
      <3> HIDE DEF Rule, hop
      <3> QED BY <1>2, FrontRule DEF FrontRuleFor
    <2>2. g = [k \in 0..N |-> g[k]]
      BY <1>2 DEF Front
    <2>3. ASSUME NEW k \in 0..N
          PROVE  g[k] = IF k = 0 THEN {n}
                        ELSE {ns[m].children[1] : m \in {x \in g[k - 1] : ns[x].children # << >>}}
      <3>1. CASE k = 0
        BY <2>1, <3>1
      <3>2. CASE k # 0
        <4>1. k \in 1..N
          BY <3>2
        <4>2. \A y : y \in g[k] <=>
                y \in {ns[m].children[1] : m \in {x \in g[k - 1] : ns[x].children # << >>}}
          BY <2>1, <4>1 DEF FirstChild
        <4>3. g[k] = {ns[m].children[1] : m \in {x \in g[k - 1] : ns[x].children # << >>}}
          BY <4>2
        <4> QED BY <3>2, <4>3
      <3> QED BY <3>1, <3>2
    <2> QED BY <2>2, <2>3
  <1>4. Rule(hop)
    <2> HIDE DEF Rule
    <2> QED BY <1>3
  <1> HIDE DEF hop
  <1>5. /\ hop[0] = {n}
        /\ \A k \in 1..N : \A y \in hop[k] : \E x \in hop[k - 1] : FirstChild(ns, x, y)
    <2>1. \A k \in 1..N : k \in 0..N /\ k # 0
      OBVIOUS
    <2>2. 0 \in 0..N
      OBVIOUS
    <2>3. hop[0] = {n}
      BY <1>4, <2>2
    <2>4. \A k \in 1..N :
            hop[k] = {ns[m].children[1] : m \in {x \in hop[k - 1] : ns[x].children # << >>}}
      BY <1>4, <2>1
    <2> HIDE DEF Rule
    <2> QED BY <2>3, <2>4 DEF FirstChild
  <1> HIDE DEF Rule
  <1>6. \A k \in 0..N : \A x \in hop[k] : x \in 1..N /\ k < h[x]
    <2> DEFINE Bad == {k \in 0..N : \E x \in hop[k] : ~(x \in 1..N /\ k < h[x])}
    <2> SUFFICES ASSUME Bad # {} PROVE FALSE
      OBVIOUS
    <2>1. PICK k \in Bad : \A j \in Bad : k <= j
      <3>1. Bad \subseteq Nat
        OBVIOUS
      <3> HIDE DEF Bad
      <3> QED BY <3>1, HasFirst
    <2>2. k # 0
      <3>1. h[n] \in 1..N
        BY DEF Layers
      <3> QED BY <1>5, <2>1, <3>1
    <2>3. k \in 1..N /\ k - 1 \in 0..N /\ ~(k <= k - 1)
      BY <2>1, <2>2
    <2>4. k - 1 \notin Bad
      BY <2>1, <2>3
    <2>5. PICK y \in hop[k] : ~(y \in 1..N /\ k < h[y])
      BY <2>1
    <2>6. PICK x \in hop[k - 1] : FirstChild(ns, x, y)
      BY <1>5, <2>3, <2>5
    <2>7. x \in 1..N /\ k - 1 < h[x]
      BY <2>3, <2>4, <2>6
    <2>8. y \in 1..N /\ h[x] < h[y]
      BY <2>6, <2>7, FirstChildFacts DEF Layers
    <2>9. h[x] \in 1..N /\ h[y] \in 1..N
      BY <2>7, <2>8 DEF Layers
    <2> QED BY <2>3, <2>5, <2>7, <2>8, <2>9
  <1>7. hop[N] = {}
    <2>1. ASSUME NEW x \in hop[N] PROVE FALSE
      <3>1. x \in 1..N /\ N < h[x]
        BY <1>6
      <3> QED BY <3>1 DEF Layers
    <2> QED BY <2>1
  <1> QED BY <1>1, <1>7

-----------------------------------------------------------------------------
(* The calls of flattenSceneGraph_r go down the layers                     *)

(* no pending call is nested deeper than the layer of its node *)
WithinLayers(calls, h) == \A i \in 1..Len(calls) : calls[i].depth <= h[calls[i].node]

FlattenInv ==
  status = "flatten" /\ Balanced(scene) /\ AcyclicIncludes(scene) =>
    \E h : Layers(nodes, h) /\ WithinLayers(walk, h)

LEMMA FiledLayers ==
  ASSUME IInv, NEW F, Filed(F), AcyclicIncludes(scene)
  PROVE  \E h : Layers(nodes, h)
  <1>1. PICK N \in Nat : N = Len(nodes)
    BY LenProperties DEF IInv, TypeOK, GraphTypeOK
  <1>2. /\ F \in [1..N -> FileName]
        /\ \A p \in 1..N : \A c : HasChild(nodes, p, c) => Link(F, p, c)
    BY <1>1 DEF Filed, NodeIds
  <1> QED BY <1>1, <1>2, GoodLayers

LEMMA GrownLayers ==
  ASSUME scene' = scene, NEW N \in Nat, Len(nodes') = N, NEW F, Filed(F)', AcyclicIncludes(scene)
  PROVE  \E h : Layers(nodes', h)
  <1>1. PICK ns : ns = nodes'
    OBVIOUS
  <1>2. F \in [1..N -> FileName]
    BY DEF Filed, NodeIds
  <1>3. \A p \in 1..N : \A c : HasChild(ns, p, c) => Link(F, p, c)
    BY <1>1 DEF Filed, NodeIds, HasChild, Link, Includes
  <1> QED BY <1>1, <1>2, <1>3, GoodLayers

(* an include of a file seen before leaves no circle of first children *)
LEMMA SeenStops ==
  ASSUME IInv, FileInv, AtInclude, [Next]_vars, Balanced(scene), AcyclicIncludes(scene),
         NEW f, IncludeSeen(f)
  PROVE  status' = "parse"
  <1>1. status = "parse" /\ status' # "failed" /\ scene' = scene
    BY ReaderStep DEF AtInclude, At, IncludeSeen
  <1>2. PICK G, F : History(G) /\ Filed(F) /\ OnPath(G, F)
    BY <1>1 DEF FileInv
  <1>3. PICK E : Filed(E)'
    BY <1>1, <1>2, FiledStep DEF FiledStepFor
  <1>4. PICK N \in Nat : N = Len(nodes)
    BY LenProperties DEF IInv, TypeOK, GraphTypeOK
  <1>5. PICK n \in 1..N : n = sceneNode
    BY <1>1, <1>4, ParseFacts DEF NodeIds
  <1>6. PICK ns : ns = nodes'
    OBVIOUS
  <1>7. ns \in Seq(NodeRecord(N)) /\ Len(ns) = N
    <2>1. nodes \in Seq(NodeRecord(N)) /\ includefileToNodeMap[f] \in 1..N
      BY <1>4 DEF IInv, TypeOK, GraphTypeOK, NodeIds, IncludeSeen
    <2>2. ns = AddChild(nodes, n, includefileToNodeMap[f])
      BY <1>5, <1>6 DEF IncludeSeen
    <2> QED BY <1>4, <2>1, <2>2, AddChildFacts
  <1>8. PICK h : Layers(ns, h)
    BY <1>1, <1>3, <1>6, <1>7, GrownLayers
  <1>9. ~FrontDiverges(ns, n)
    BY <1>7, <1>8, LayersStopFront
  <1> QED BY <1>5, <1>6, <1>9 DEF IncludeSeen

(* only the end of the text begins the walk, and only the walk goes on with it *)
LEMMA WalkCases ==
  ASSUME IInv, [Next]_vars, status' = "flatten"
  PROVE  ParseDone \/ Flatten \/ UNCHANGED <<scene, status, nodes, walk>>
  <1>1. CASE UNCHANGED vars
    BY <1>1 DEF vars, graphVars, walkVars
  <1>2. CASE StaticXform \/ AnimatedXform \/ EndStatic \/ EndAnimated \/ EndUnmatched
    BY <1>2 DEF StaticXform, AnimatedXform, EndStatic, EndAnimated, EndUnmatched, At, Stays
  <1>3. CASE ParseDetailLevel \/ ParseFill \/ ParseMesh \/ ParseSphereOrCone \/ ParsePoly
               \/ ParseTexturedTriangle \/ ParseOther \/ ParseError
    BY <1>3 DEF ParseDetailLevel, ParseFill, ParseMesh, ParseSphereOrCone, ParsePoly,
                ParseTexturedTriangle, ParseOther, ParseError, At, Stays
  <1>4. CASE Load \/ LoadReturn \/ IncludeReturn
    BY <1>4 DEF Load, LoadReturn, IncludeReturn, Stays
  <1>5. CASE Include
    BY <1>5 DEF Include, IncludeSeen, IncludeNew, IncludeSkip, AtInclude, At, Stays
  <1> QED BY <1>1, <1>2, <1>3, <1>4, <1>5 DEF Next

LEMMA WalkBegins ==
  ASSUME IInv, FileInv, ParseDone, Balanced(scene), AcyclicIncludes(scene)
  PROVE  \E h : Layers(nodes', h) /\ WithinLayers(walk', h)
  <1>1. PICK G, F : Filed(F)
    BY DEF FileInv, ParseDone
  <1>2. PICK h : Layers(nodes, h)
    BY <1>1, FiledLayers
  <1>3. nodes' = nodes /\ Len(nodes) \in Nat \ {0}
    BY ParseFacts DEF ParseDone, graphVars
  <1>4. 1 <= h[1]
    BY <1>2, <1>3 DEF Layers
  <1>5. WithinLayers(walk', h)
    BY <1>4 DEF ParseDone, WithinLayers
  <1> QED BY <1>2, <1>3, <1>5

(* one call of the walk: its calls come before those that were pending *)
WalkShape(k, t) ==
  /\ Len(walk) = t + 1 /\ Len(walk') = k + t
  /\ \A i \in 1..k :
       /\ HasChild(nodes, walk[1].node, walk'[i].node)
       /\ walk'[i].depth = walk[1].depth + 1
       /\ walk'[i].parentXform = Combined(walk[1].parentXform, nodes[walk[1].node].xform)
  /\ \A i \in 1..t : walk'[k + i] = walk[i + 1]

LEMMA WalkHead ==
  ASSUME IInv, Flatten, NEW N, N = Len(nodes)
  PROVE  /\ N \in Nat /\ walk \in Seq(Call(N)) /\ Len(walk) \in Nat \ {0}
         /\ Head(walk) = walk[1] /\ walk[1] \in Call(N)
         /\ Tail(walk) \in Seq(Call(N)) /\ Len(Tail(walk)) = Len(walk) - 1
         /\ \A i \in 1..(Len(walk) - 1) : Tail(walk)[i] = walk[i + 1]
         /\ nodes[walk[1].node] \in NodeRecord(N)
  <1>1. N \in Nat /\ walk \in Seq(Call(N)) /\ walk # << >>
    BY LenProperties DEF IInv, TypeOK, GraphTypeOK, WalkTypeOK, NodeIds, Call, Flatten
  <1>2. Len(walk) \in Nat \ {0}
    BY <1>1, EmptySeq, LenProperties
  <1>3. 1 \in 1..Len(walk)
    BY <1>2
  <1>4. walk[1] \in Call(N)
    BY <1>1, <1>3, ElementOfSeq
  <1>5. nodes[walk[1].node] \in NodeRecord(N)
    <2>1. nodes \in Seq(NodeRecord(N)) /\ walk[1].node \in 1..Len(nodes)
      BY <1>4 DEF IInv, TypeOK, GraphTypeOK, Call
    <2> QED BY <2>1, ElementOfSeq
  <1> QED BY <1>1, <1>2, <1>4, <1>5, HeadTailProperties

LEMMA WalkShapes ==
  ASSUME IInv, Flatten, status' = "flatten"
  PROVE  \E k, t \in Nat : WalkShape(k, t)
  <1>1. PICK N : N = Len(nodes)
    OBVIOUS
  <1>2. PICK call, kids : call = walk[1] /\ kids = nodes[call.node].children
    OBVIOUS
  <1>3. /\ N \in Nat /\ call \in Call(N) /\ Head(walk) = call
        /\ kids \in Seq(1..N) /\ nodes[call.node].xform \in Matrix
    BY <1>1, <1>2, WalkHead DEF NodeRecord
  <1>4. PICK k \in Nat : k = Len(kids) /\ DOMAIN kids = 1..k
    BY <1>3, LenProperties
  <1>5. PICK xf : xf = Combined(call.parentXform, nodes[call.node].xform)
    OBVIOUS
  <1>6. xf \in Matrix
    BY <1>3, <1>5, ConcatProperties DEF Matrix, Combined, Call
  <1>7. PICK more : more = [i \in 1..k |->
                      [node |-> kids[i], parentXform |-> xf, depth |-> call.depth + 1]]
    OBVIOUS
  <1>8. walk' = more \o Tail(walk)
    BY <1>2, <1>3, <1>4, <1>5, <1>7 DEF Flatten
  <1>9. /\ Len(more) = k /\ more \in Seq(Call(N))
        /\ \A i \in 1..k : /\ more[i].node = kids[i] /\ more[i].depth = call.depth + 1
                           /\ more[i].parentXform = xf
    <2>1. \A i \in 1..k : kids[i] \in 1..N
      BY <1>3, <1>4, ElementOfSeq
    <2>2. call.depth + 1 \in Nat
      BY <1>3 DEF Call
    <2>3. more \in [1..k -> Call(N)]
      BY <1>6, <1>7, <2>1, <2>2 DEF Call
    <2>4. more \in Seq(Call(N))
      BY <2>3, SeqDef
    <2> QED BY <1>7, <2>3, <2>4
  <1>10. PICK t \in Nat : t = Len(Tail(walk)) /\ Len(walk) = t + 1
    <2>1. Len(Tail(walk)) \in Nat /\ Len(Tail(walk)) = Len(walk) - 1 /\ Len(walk) \in Nat
      BY <1>1, WalkHead, LenProperties
    <2> QED BY <2>1
  <1>11. /\ Len(walk') = k + t
         /\ \A i \in 1..(k + t) : walk'[i] = IF i <= k THEN more[i] ELSE Tail(walk)[i - k]
    <2>1. Tail(walk) \in Seq(Call(N))
      BY <1>1, WalkHead
    <2> QED BY <1>8, <1>9, <1>10, <2>1, ConcatProperties
  <1>12. \A i \in 1..k : i \in 1..(k + t) /\ walk'[i] = more[i]
    BY <1>11
  <1>13. \A i \in 1..k : HasChild(nodes, call.node, kids[i])
    BY <1>2, <1>4 DEF HasChild
  <1>14. ASSUME NEW i \in 1..t
         PROVE  walk'[k + i] = walk[i + 1]
    <2>1. PICK j \in 1..(k + t) : j = k + i /\ ~(j <= k) /\ j - k = i
      OBVIOUS
    <2>2. walk'[j] = Tail(walk)[i]
      BY <1>11, <2>1
    <2>3. i \in 1..(Len(walk) - 1)
      BY <1>10
    <2> QED BY <1>1, <2>1, <2>2, <2>3, WalkHead
  <1>15. WalkShape(k, t)
    BY <1>2, <1>5, <1>9, <1>10, <1>11, <1>12, <1>13, <1>14 DEF WalkShape
  <1> QED BY <1>15

LEMMA WalkGoesDown ==
  ASSUME IInv, Flatten, status' = "flatten", NEW h, Layers(nodes, h), WithinLayers(walk, h)
  PROVE  WithinLayers(walk', h)
  <1>1. PICK k \in Nat, t \in Nat : WalkShape(k, t)
    BY WalkShapes
  <1>2. PICK N : N = Len(nodes)
    OBVIOUS
  <1>3. PICK n \in 1..N, d \in Nat : n = walk[1].node /\ d = walk[1].depth
    BY <1>2, WalkHead DEF Call
  <1>4. d <= h[n]
    BY <1>1, <1>3 DEF WithinLayers, WalkShape
  <1>5. \A i \in 1..k : walk'[i].depth <= h[walk'[i].node]
    <2> SUFFICES ASSUME NEW i \in 1..k PROVE walk'[i].depth <= h[walk'[i].node]
      OBVIOUS
    <2>1. PICK c : c = walk'[i].node
      OBVIOUS
    <2>2. HasChild(nodes, n, c) /\ walk'[i].depth = d + 1
      BY <1>1, <1>3, <2>1 DEF WalkShape
    <2>3. h[n] < h[c] /\ h[n] \in Nat /\ h[c] \in Nat
      BY <1>2, <2>2 DEF Layers
    <2> QED BY <1>4, <2>1, <2>2, <2>3
  <1>6. \A i \in 1..t : i + 1 \in 1..Len(walk) /\ walk'[k + i] = walk[i + 1]
    BY <1>1 DEF WalkShape
  <1>7. \A i \in 1..t : walk'[k + i].depth <= h[walk'[k + i].node]
    BY <1>6 DEF WithinLayers
  <1> SUFFICES ASSUME NEW i \in 1..(k + t) PROVE walk'[i].depth <= h[walk'[i].node]
    BY <1>1 DEF WithinLayers, WalkShape
  <1>8. CASE i \in 1..k
    BY <1>5, <1>8
  <1>9. CASE i \notin 1..k
    <2>1. PICK j \in 1..t : i = k + j
      <3>1. i - k \in 1..t /\ i = k + (i - k)
        BY <1>9
      <3> QED BY <3>1
    <2> QED BY <1>7, <2>1
  <1> QED BY <1>8, <1>9

LEMMA FlattenStep ==
  ASSUME IInv, FileInv, FlattenInv, [Next]_vars
  PROVE  FlattenInv'
  <1>0. scene' = scene
    BY ReaderStep
  <1> SUFFICES ASSUME status' = "flatten", Balanced(scene), AcyclicIncludes(scene)
               PROVE  \E h : Layers(nodes', h) /\ WithinLayers(walk', h)
    BY <1>0 DEF FlattenInv
  <1>1. CASE ParseDone
    BY <1>1, WalkBegins
  <1>2. CASE Flatten
    <2>1. nodes' = nodes /\ status = "flatten"
      BY <1>2 DEF Flatten, graphVars
    <2>2. PICK h : Layers(nodes, h) /\ WithinLayers(walk, h)
      BY <2>1 DEF FlattenInv
    <2>3. WithinLayers(walk', h)
      BY <1>2, <2>2, WalkGoesDown
    <2> QED BY <2>1, <2>2, <2>3
  <1>3. CASE UNCHANGED <<scene, status, nodes, walk>>
    BY <1>3 DEF FlattenInv
  <1> QED BY <1>1, <1>2, <1>3, WalkCases

(* the walk never exceeds the layers, so never the number of the nodes *)
LEMMA FlattenReturns ==
  ASSUME IInv, FlattenInv, Flatten, Balanced(scene), AcyclicIncludes(scene)
  PROVE  status' # "overflow"
  <1>1. status = "flatten" /\ walk # << >>
    BY DEF Flatten
  <1>2. PICK h : Layers(nodes, h) /\ WithinLayers(walk, h)
    BY <1>1 DEF FlattenInv
  <1>3. PICK N \in Nat : N = Len(nodes)
    BY LenProperties DEF IInv, TypeOK, GraphTypeOK
  <1>4. walk \in Seq(Call(N)) /\ Len(walk) \in Nat \ {0} /\ Head(walk) = walk[1]
    <2>1. walk \in Seq(Call(N))
      BY <1>3 DEF IInv, TypeOK, WalkTypeOK, NodeIds, Call
    <2> QED BY <1>1, <2>1, EmptySeq, LenProperties
  <1>5. 1 \in 1..Len(walk)
    BY <1>4
  <1>6. walk[1] \in Call(N)
    BY <1>4, <1>5, ElementOfSeq
  <1>7. walk[1].depth <= h[walk[1].node] /\ h[walk[1].node] <= N /\ walk[1].depth \in Nat
        /\ h[walk[1].node] \in Nat
    BY <1>2, <1>3, <1>5, <1>6 DEF WithinLayers, Layers, Call
  <1>8. ~(Head(walk).depth > Len(nodes))
    BY <1>3, <1>4, <1>7
  <1> QED BY <1>1, <1>8 DEF Flatten

LEMMA OverflowCases ==
  ASSUME IInv, [Next]_vars, status' = "overflow"
  PROVE  \/ Flatten \/ status = "overflow"
         \/ AtInclude /\ \E f : IncludeSeen(f)
  <1>1. CASE UNCHANGED vars
    BY <1>1 DEF vars
  <1>2. CASE StaticXform \/ AnimatedXform \/ EndStatic \/ EndAnimated \/ EndUnmatched
    BY <1>2 DEF StaticXform, AnimatedXform, EndStatic, EndAnimated, EndUnmatched, At, Stays
  <1>3. CASE ParseDetailLevel \/ ParseFill \/ ParseMesh \/ ParseSphereOrCone \/ ParsePoly
               \/ ParseTexturedTriangle \/ ParseOther \/ ParseError
    BY <1>3 DEF ParseDetailLevel, ParseFill, ParseMesh, ParseSphereOrCone, ParsePoly,
                ParseTexturedTriangle, ParseOther, ParseError, At, Stays
  <1>4. CASE Load \/ LoadReturn \/ IncludeReturn \/ ParseDone
    BY <1>4 DEF Load, LoadReturn, IncludeReturn, Stays, ParseDone
  <1>5. CASE Include
    BY <1>5 DEF Include, IncludeSeen, IncludeNew, IncludeSkip, AtInclude, At, Stays
  <1> QED BY <1>1, <1>2, <1>3, <1>4, <1>5 DEF Next

OverflowInv == IInv /\ PosInv /\ FileInv /\ FlattenInv /\ GoodScenesNeverOverflow

(* flattenSceneGraph_r and PropagateChildPosition return in every scene    *)
(* whose files close the transforms they open and include no file that     *)
(* includes them.                                                          *)
THEOREM LoaderReturns == Spec => []GoodScenesNeverOverflow
  <1>1. Init => OverflowInv
    BY InitIInv DEF Init, OverflowInv, PosInv, FileInv, FlattenInv, GoodScenesNeverOverflow
  <1>2. OverflowInv /\ [Next]_vars => OverflowInv'
    <2> SUFFICES ASSUME OverflowInv, [Next]_vars
                 PROVE  OverflowInv'
      OBVIOUS
    <2>1. IInv /\ PosInv /\ FileInv /\ FlattenInv /\ GoodScenesNeverOverflow
      BY DEF OverflowInv
    <2>2. IInv' /\ PosInv' /\ FileInv' /\ FlattenInv' /\ scene' = scene
      BY <2>1, NextIInv, PosStep, FileStep, FlattenStep, ReaderStep
    <2>3. ASSUME status' = "overflow", Balanced(scene), AcyclicIncludes(scene)
          PROVE  FALSE
      <3>1. CASE Flatten
        BY <2>1, <2>3, <3>1, FlattenReturns
      <3>2. CASE status = "overflow"
        BY <2>1, <2>3, <3>2 DEF GoodScenesNeverOverflow
      <3>3. CASE AtInclude /\ \E f : IncludeSeen(f)
        BY <2>1, <2>3, <3>3, SeenStops
      <3> QED BY <2>1, <2>3, <3>1, <3>2, <3>3, OverflowCases
    <2>4. GoodScenesNeverOverflow'
      BY <2>2, <2>3 DEF GoodScenesNeverOverflow
    <2> QED BY <2>2, <2>4 DEF OverflowInv
  <1>3. OverflowInv => GoodScenesNeverOverflow
    BY DEF OverflowInv
  <1> QED BY <1>1, <1>2, <1>3, PTL DEF Spec

-----------------------------------------------------------------------------
(* Every token is read at most once: a file is opened once                 *)

Opened(f) == f = Main \/ f \in DOMAIN includefileToNodeMap

(* token i of file f has been read *)
Consumed(f, i) ==
  /\ Opened(f) /\ f \in DOMAIN scene /\ i \in DOMAIN scene[f]
  /\ \A r \in 1..Len(reader) : reader[r].file = f => i < reader[r].pos

OpenOnce ==
  /\ Main \notin DOMAIN includefileToNodeMap
  /\ \A r \in 1..Len(reader) : Opened(reader[r].file)
  /\ \A r, q \in 1..Len(reader) : reader[r].file = reader[q].file => r = q

(* the steps by what they do to the open files *)
OpenStep ==
  \/ reader' = reader /\ includefileToNodeMap' = includefileToNodeMap
  \/ ~AtEof /\ reader' = Advanced /\ includefileToNodeMap' = includefileToNodeMap
  \/ /\ ~AtEof /\ Tok.op = "i"
     /\ \E f \in DOMAIN scene :
          /\ f = Tok.file /\ f # Main /\ f \notin DOMAIN includefileToNodeMap
          /\ reader' = Append(Advanced, [file |-> f, pos |-> 1])
          /\ DOMAIN includefileToNodeMap' = DOMAIN includefileToNodeMap \cup {f}
  \/ /\ AtEof /\ Len(reader) > 1 /\ reader' = Pop(reader)
     /\ includefileToNodeMap' = includefileToNodeMap

LEMMA TokPlace ==
  ASSUME IInv, status = "parse", ~AtEof
  PROVE  /\ Frame.file \in DOMAIN scene /\ Frame.pos \in DOMAIN scene[Frame.file]
         /\ Tok = scene[Frame.file][Frame.pos] /\ Tok \in Token
  <1>1. PICK n \in Nat \ {0} : n = Len(reader)
    BY FrameFacts
  <1>2. n \in 1..n
    OBVIOUS
  <1>3. /\ Frame.file \in DOMAIN scene /\ scene[Frame.file] \in Seq(Token)
        /\ Frame.pos \in 1..Len(scene[Frame.file])
    BY <1>1, <1>2, FrameFacts
  <1>4. Frame.pos \in DOMAIN scene[Frame.file]
    BY <1>3, LenProperties
  <1> QED BY <1>3, <1>4, ElementOfSeq DEF Tok

LEMMA IncludeOp ==
  ASSUME IInv, AtInclude, NEW arg \in IncludeArgs
  PROVE  status = "parse" /\ ~AtEof /\ Tok.op = "i" /\ arg[1] = Tok.file /\ Tok.file # Main
  <1>1. status = "parse" /\ ~AtEof /\ Tok.op \in {"i", "i?"}
    BY DEF AtInclude, At
  <1>2. /\ Frame.file \in DOMAIN scene /\ Frame.pos \in DOMAIN scene[Frame.file]
        /\ Tok = scene[Frame.file][Frame.pos]
    BY <1>1, TokPlace
  <1>3. DistinctMeshes(scene)
    BY DistinctMeshesAssumption DEF IInv
  <1>4. Tok.op # "i?" /\ (Tok.op = "i" => Tok.file # Main)
    BY <1>2, <1>3 DEF DistinctMeshes
  <1> QED BY <1>1, <1>4 DEF IncludeArgs

LEMMA OpenSteps ==
  ASSUME IInv, [Next]_vars, status = "parse", status' = "parse"
  PROVE  OpenStep
  <1>1. CASE UNCHANGED vars
    BY <1>1 DEF vars, graphVars, OpenStep
  <1>2. CASE StaticXform
    <2>1. reader' = Advanced /\ ~AtEof /\ PushNode("static", <<Tok.xf>>, fileScopeStack)
      BY <1>2 DEF StaticXform, At, Advance
    <2>2. includefileToNodeMap' = includefileToNodeMap
      BY <2>1 DEF PushNode, Mapped
    <2> QED BY <2>1, <2>2 DEF OpenStep
  <1>3. CASE AnimatedXform
    <2>1. reader' = Advanced /\ ~AtEof /\ PushNode(Tok.name, Identity, fileScopeStack)
      BY <1>3 DEF AnimatedXform, At, Advance
    <2>2. Tok \in Token /\ Tok.op = "x"
      BY <1>3, <2>1, TokPlace DEF AnimatedXform, At
    <2>3. Tok.name # "null"
      BY <2>2, NamesAssumption DEF Token
    <2>4. includefileToNodeMap' = includefileToNodeMap
      BY <2>1, <2>3 DEF PushNode, Mapped
    <2> QED BY <2>1, <2>4 DEF OpenStep
  <1>4. CASE EndStatic \/ EndAnimated \/ EndUnmatched
    BY <1>4 DEF EndStatic, EndAnimated, EndUnmatched, At, Advance, PopNode, graphVars, OpenStep
  <1>5. CASE ParseDetailLevel \/ ParseFill \/ ParseMesh \/ ParseSphereOrCone \/ ParsePoly
               \/ ParseTexturedTriangle \/ ParseOther \/ ParseError
    BY <1>5 DEF ParseDetailLevel, ParseFill, ParseMesh, ParseSphereOrCone, ParsePoly,
                ParseTexturedTriangle, ParseOther, ParseError, At, Advance, Stays,
                graphVars, OpenStep
  <1>6. CASE Load \/ ParseDone \/ Flatten \/ LoadReturn
    BY <1>6 DEF Load, ParseDone, Flatten, LoadReturn
  <1>7. CASE IncludeReturn
    BY <1>7 DEF IncludeReturn, PopNode, OpenStep
  <1>8. CASE Include
    <2>1. PICK arg \in IncludeArgs :
            IncludeSeen(arg[1]) \/ IncludeNew(arg[1], arg[2]) \/ IncludeSkip(arg[1], arg[2])
      BY <1>8 DEF Include
    <2>2. /\ ~AtEof /\ Tok.op = "i" /\ arg[1] = Tok.file /\ Tok.file # Main
      BY <1>8, IncludeOp DEF Include
    <2>3. CASE IncludeSeen(arg[1]) \/ IncludeSkip(arg[1], arg[2])
      BY <2>2, <2>3 DEF IncludeSeen, IncludeSkip, Advance, graphVars, OpenStep
    <2>4. CASE IncludeNew(arg[1], arg[2])
      <3>1. PICK f : f = arg[1]
        OBVIOUS
      <3>2. /\ f \notin DOMAIN includefileToNodeMap /\ f \in DOMAIN scene
            /\ reader' = Append(Advanced, [file |-> f, pos |-> 1])
            /\ PushNode("null", Identity, fileScopeStack')
            /\ fileScopeStack' = Append(fileScopeStack, f)
        BY <2>4, <3>1 DEF IncludeNew
      <3>3. Top(fileScopeStack') = f
        <4>1. fileScopeStack \in Seq(FileName \cup {"root"}) /\ f \in FileName
          BY <1>8, <3>1, IncludeArgsType DEF Include, IInv, TypeOK, GraphTypeOK
        <4> QED BY <3>2, <4>1, PushFacts
      <3>4. DOMAIN includefileToNodeMap' = DOMAIN includefileToNodeMap \cup {f}
        <4>1. includefileToNodeMap' = Put(includefileToNodeMap, f, Len(nodes) + 1)
          BY <3>2, <3>3 DEF PushNode, Mapped
        <4> QED BY <4>1 DEF Put
      <3> QED BY <2>2, <3>1, <3>2, <3>4 DEF OpenStep
    <2> QED BY <2>1, <2>3, <2>4
  <1> QED BY <1>1, <1>2, <1>3, <1>4, <1>5, <1>6, <1>7, <1>8 DEF Next

(* the frames after a step: as many or one less, or one token further, and *)
(* then perhaps one more, of a file not open before                        *)
FramesStay(n) ==
  /\ Len(reader') <= n /\ \A r \in 1..Len(reader') : reader'[r] = reader[r]
  /\ includefileToNodeMap' = includefileToNodeMap

FrameMoves(n) ==
  /\ reader'[n].pos = reader[n].pos + 1
  /\ \A r \in 1..n : /\ reader'[r].file = reader[r].file
                     /\ r # n => reader'[r] = reader[r]

OpensFile(n, f) ==
  /\ f # Main /\ f \notin DOMAIN includefileToNodeMap /\ f = Tok.file /\ Tok.op = "i"
  /\ DOMAIN includefileToNodeMap' = DOMAIN includefileToNodeMap \cup {f}
  /\ Len(reader') = n + 1 /\ reader'[n + 1].file = f

OpenMove(n) ==
  \/ FramesStay(n)
  \/ /\ ~AtEof /\ FrameMoves(n)
     /\ Len(reader') = n /\ includefileToNodeMap' = includefileToNodeMap
  \/ /\ ~AtEof /\ FrameMoves(n) /\ \E f : OpensFile(n, f)

LEMMA OpenMoves ==
  ASSUME IInv, status = "parse", OpenStep, NEW n \in Nat \ {0}, n = Len(reader)
  PROVE  OpenMove(n) /\ Len(reader') \in Nat
  <1>1. /\ Advanced \in Seq([file : DOMAIN scene, pos : Nat \ {0}])
        /\ Len(Advanced) = n
        /\ \A r \in 1..n : Advanced[r].file = reader[r].file /\ (r # n => Advanced[r] = reader[r])
        /\ Advanced[n].pos = reader[n].pos + 1
    BY AdvancedFacts
  <1>2. CASE reader' = reader /\ includefileToNodeMap' = includefileToNodeMap
    BY <1>2 DEF OpenMove, FramesStay
  <1>3. CASE ~AtEof /\ reader' = Advanced /\ includefileToNodeMap' = includefileToNodeMap
    BY <1>1, <1>3 DEF OpenMove, FrameMoves
  <1>4. ASSUME ~AtEof, Tok.op = "i", NEW f \in DOMAIN scene,
               f = Tok.file, f # Main, f \notin DOMAIN includefileToNodeMap,
               reader' = Append(Advanced, [file |-> f, pos |-> 1]),
               DOMAIN includefileToNodeMap' = DOMAIN includefileToNodeMap \cup {f}
        PROVE  OpenMove(n) /\ Len(reader') \in Nat
    <2>1. PICK new \in [file : DOMAIN scene, pos : Nat \ {0}] :
            reader' = Append(Advanced, new) /\ new.file = f
      BY <1>4
    <2>2. /\ Len(reader') = n + 1 /\ reader'[n + 1] = new
          /\ \A r \in 1..n : reader'[r] = Advanced[r]
      BY <1>1, <2>1, AppendProperties
    <2>3. FrameMoves(n)
      <3>1. n \in 1..n
        OBVIOUS
      <3> QED BY <1>1, <2>2, <3>1 DEF FrameMoves
    <2>4. OpensFile(n, f)
      BY <1>4, <2>1, <2>2 DEF OpensFile
    <2> QED BY <1>4, <2>2, <2>3, <2>4 DEF OpenMove
  <1>5. CASE Len(reader) > 1 /\ reader' = Pop(reader) /\ includefileToNodeMap' = includefileToNodeMap
    <2>1. reader \in Seq([file : DOMAIN scene, pos : Nat \ {0}]) /\ reader # << >>
      BY ParseFacts DEF IInv, TypeOK, ReaderTypeOK
    <2>2. Len(reader') = n - 1 /\ \A r \in 1..(n - 1) : reader'[r] = reader[r]
      BY <1>5, <2>1, PopFacts
    <2> QED BY <1>5, <2>2 DEF OpenMove, FramesStay
  <1> QED BY <1>2, <1>3, <1>4, <1>5 DEF OpenStep

LEMMA OpenOnceStep ==
  ASSUME IInv, status = "parse", OpenStep, OpenOnce
  PROVE  OpenOnce'
  <1>1. PICK n \in Nat \ {0} : n = Len(reader)
    BY FrameFacts
  <1>2. OpenMove(n) /\ Len(reader') \in Nat
    BY <1>1, OpenMoves
  <1> USE DEF OpenOnce, Opened
  <1>3. CASE FramesStay(n)
    <2>1. \A r \in 1..Len(reader') : r \in 1..n /\ reader'[r] = reader[r]
      BY <1>2, <1>3 DEF FramesStay
    <2> QED BY <1>1, <1>3, <2>1 DEF FramesStay
  <1>4. CASE FrameMoves(n) /\ Len(reader') = n /\ includefileToNodeMap' = includefileToNodeMap
    BY <1>1, <1>4 DEF FrameMoves
  <1>5. ASSUME FrameMoves(n), NEW f, OpensFile(n, f)
        PROVE  OpenOnce'
    <2>1. \A r \in 1..(n + 1) : r = n + 1 \/ r \in 1..n
      OBVIOUS
    <2>2. \A r \in 1..n : reader'[r].file = reader[r].file /\ reader[r].file # f
      BY <1>1, <1>5 DEF FrameMoves, OpensFile
    <2>3. reader'[n + 1].file = f /\ Len(reader') = n + 1
      BY <1>5 DEF OpensFile
    <2>4. \A r \in 1..(n + 1) : reader'[r].file = Main \/ reader'[r].file \in DOMAIN includefileToNodeMap'
      BY <1>1, <1>5, <2>1, <2>2, <2>3 DEF OpensFile
    <2>5. ASSUME NEW r \in 1..(n + 1), NEW q \in 1..(n + 1), reader'[r].file = reader'[q].file
          PROVE  r = q
      BY <1>1, <2>1, <2>2, <2>3, <2>5
    <2> QED BY <1>5, <2>3, <2>4, <2>5 DEF OpensFile
  <1> QED BY <1>2, <1>3, <1>4, <1>5 DEF OpenMove

LEMMA ConsumedKept ==
  ASSUME IInv, status = "parse", scene' = scene, OpenStep, OpenOnce,
         NEW f, NEW i, Consumed(f, i)
  PROVE  Consumed(f, i)'
  <1>1. PICK n \in Nat \ {0} : n = Len(reader)
    BY FrameFacts
  <1>2. OpenMove(n) /\ Len(reader') \in Nat
    BY <1>1, OpenMoves
  <1>3. Opened(f)' /\ f \in DOMAIN scene' /\ i \in DOMAIN scene'[f]
    BY <1>2 DEF Consumed, Opened, OpenMove, FramesStay, OpensFile
  <1> SUFFICES ASSUME NEW r \in 1..Len(reader'), reader'[r].file = f
               PROVE  i < reader'[r].pos
    BY <1>3 DEF Consumed
  <1>4. i \in Nat
    <2>1. scene[f] \in Seq(Token)
      BY ScenesAssumption DEF IInv, Consumed
    <2> QED BY <2>1, LenProperties DEF Consumed
  <1>5. \A q \in 1..n : reader[q].pos \in Nat
    BY <1>1, FrameFacts
  <1>6. \A q \in 1..n : reader[q].file = f => i < reader[q].pos
    BY <1>1 DEF Consumed
  <1>7. CASE FramesStay(n)
    BY <1>2, <1>6, <1>7 DEF FramesStay
  <1>8. CASE FrameMoves(n) /\ r \in 1..n
    <2>1. reader[r].file = f /\ i < reader[r].pos
      BY <1>6, <1>8 DEF FrameMoves
    <2>2. reader'[r].pos = reader[r].pos \/ reader'[r].pos = reader[r].pos + 1
      BY <1>8 DEF FrameMoves
    <2> QED BY <1>4, <1>5, <1>8, <2>1, <2>2
  <1>9. ASSUME NEW g, OpensFile(n, g), r \notin 1..n
        PROVE  FALSE
    <2>1. r = n + 1 /\ f = g
      BY <1>9 DEF OpensFile
    <2> QED BY <1>9, <2>1 DEF OpensFile, Consumed, Opened
  <1> QED BY <1>2, <1>7, <1>8, <1>9 DEF OpenMove

(* a token is not read before its step, and read after it *)
LEMMA TokenNotConsumed ==
  ASSUME IInv, status = "parse"
  PROVE  ~Consumed(Frame.file, Frame.pos)
  <1>1. PICK n \in Nat \ {0} : n = Len(reader)
    BY FrameFacts
  <1>2. n \in 1..n /\ Frame = reader[n] /\ reader[n].pos \in Nat
    BY <1>1, FrameFacts
  <1> QED BY <1>1, <1>2 DEF Consumed

LEMMA TokenConsumed ==
  ASSUME IInv, status = "parse", ~AtEof, scene' = scene, OpenOnce,
         NEW n \in Nat \ {0}, n = Len(reader), FrameMoves(n),
         \/ Len(reader') = n /\ includefileToNodeMap' = includefileToNodeMap
         \/ \E f : OpensFile(n, f),
         NEW g, NEW i, g = Frame.file, i = Frame.pos
  PROVE  Consumed(g, i)'
  <1>1. n \in 1..n /\ Frame = reader[n] /\ reader[n].pos \in Nat
    BY FrameFacts
  <1>2. Opened(g) /\ g \in DOMAIN scene /\ i \in DOMAIN scene[g]
    BY <1>1, TokPlace DEF OpenOnce
  <1>3. Opened(g)'
    BY <1>2 DEF Opened, OpensFile
  <1> SUFFICES ASSUME NEW r \in 1..Len(reader'), reader'[r].file = g
               PROVE  i < reader'[r].pos
    BY <1>2, <1>3 DEF Consumed
  <1>4. CASE r \in 1..n
    <2>1. reader[r].file = reader[n].file
      BY <1>1, <1>4 DEF FrameMoves
    <2>2. r = n
      BY <1>1, <1>4, <2>1 DEF OpenOnce
    <2>3. reader'[r].pos = i + 1 /\ i \in Nat
      BY <1>1, <2>2 DEF FrameMoves
    <2> QED BY <2>3
  <1>5. CASE r \notin 1..n
    <2>1. PICK f : OpensFile(n, f)
      BY <1>5
    <2>2. r = n + 1 /\ f = g
      BY <1>5, <2>1 DEF OpensFile
    <2> QED BY <1>2, <2>1, <2>2 DEF OpensFile, Opened
  <1> QED BY <1>4, <1>5

-----------------------------------------------------------------------------
(* Every mesh is in one node                                               *)

MeshesRead ==
  \A n \in NodeIds : nodes[n].mesh # None =>
    \E f, i : /\ Consumed(f, i) /\ scene[f][i].op = "m"
             /\ scene[f][i].mesh = nodes[n].mesh

MeshesOnce ==
  \A m, n \in NodeIds : nodes[m].mesh = nodes[n].mesh /\ nodes[m].mesh # None => m = n

MeshesKept == \A n \in NodeIds : nodes'[n].mesh = nodes[n].mesh

LEMMA AddChildMeshes ==
  ASSUME NEW k \in Nat, NEW ns \in Seq(NodeRecord(k)), NEW p \in 1..Len(ns), NEW c \in 1..k
  PROVE  \A n \in 1..Len(ns) : AddChild(ns, p, c)[n].mesh = ns[n].mesh
  <1>1. \A n \in 1..Len(ns) : ns[n] \in NodeRecord(k)
    BY ElementOfSeq
  <1>2. DOMAIN ns = 1..Len(ns)
    BY LenProperties
  <1>3. [ns[p] EXCEPT !.children = Append(@, c)].mesh = ns[p].mesh
    BY <1>1 DEF NodeRecord
  <1>4. AddChild(ns, p, c) = [ns EXCEPT ![p] = [ns[p] EXCEPT !.children = Append(@, c)]]
    BY <1>1, <1>2 DEF AddChild, NodeRecord
  <1> QED BY <1>2, <1>3, <1>4

LEMMA PushNodeMeshes ==
  ASSUME GraphTypeOK, sceneNode \in NodeIds,
         NEW name \in XformName \cup {"null", "static"}, NEW xform \in Matrix,
         NEW scopes \in Seq(FileName \cup {"root"}), scopes # << >>,
         PushNode(name, xform, scopes)
  PROVE  MeshesKept /\ nodes'[Len(nodes) + 1].mesh = None
  <1> DEFINE new == Len(nodes) + 1
  <1> DEFINE grown == AddChild(nodes, sceneNode, new)
  <1> DEFINE node == NewNode(name, Top(scopes), xform)
  <1>1. Len(nodes) \in Nat /\ new \in Nat /\ new \in 1..new /\ Len(nodes) <= new
    BY LenProperties DEF GraphTypeOK
  <1>2. nodes \in Seq(NodeRecord(new)) /\ sceneNode \in 1..Len(nodes)
    BY <1>1, NodesGrow DEF GraphTypeOK, NodeIds
  <1>3. /\ grown \in Seq(NodeRecord(new)) /\ Len(grown) = Len(nodes)
        /\ \A m \in 1..Len(nodes) : grown[m].mesh = nodes[m].mesh
    BY <1>1, <1>2, AddChildFacts, AddChildMeshes
  <1>4. node \in NodeRecord(new) /\ node.mesh = None
    <2>1. Top(scopes) \in FileName \cup {"root"}
      BY PopFacts
    <2>2. node \in NodeRecord(new)
      BY <1>1, <2>1, NewNodeType
    <2> QED BY <2>2 DEF NewNode
  <1>5. nodes' = Append(grown, node)
    BY DEF PushNode
  <1> HIDE DEF grown, node
  <1>6. nodes'[new] = node /\ \A m \in 1..Len(nodes) : nodes'[m] = grown[m]
    BY <1>3, <1>4, <1>5, AppendProperties DEF new
  <1> QED BY <1>3, <1>4, <1>6 DEF MeshesKept, NodeIds, new

(* what a step does to the nodes *)
NodesAsBefore == NoNewLink /\ XformsKept /\ MeshesKept

NodeAdded ==
  /\ XformsKept /\ MeshesKept
  /\ Len(nodes') = Len(nodes) + 1 /\ nodes'[Len(nodes) + 1].mesh = None
  /\ NewEdge(nodes, nodes', sceneNode, Len(nodes) + 1)

SubtreeShared ==
  /\ XformsKept /\ MeshesKept /\ Len(nodes') = Len(nodes)
  /\ ~AtEof /\ Tok.op = "i" /\ Tok.file \in DOMAIN includefileToNodeMap

MeshSet ==
  /\ NoNewLink /\ XformsKept
  /\ ~AtEof /\ Tok.op = "m" /\ reader' = Advanced
  /\ \A n \in NodeIds : n # sceneNode => nodes'[n].mesh = nodes[n].mesh
  /\ nodes'[sceneNode].mesh = Tok.mesh

NodeStep == NodesAsBefore \/ NodeAdded \/ SubtreeShared \/ MeshSet

LEMMA MeshSteps ==
  ASSUME IInv, ParseMesh, status' = "parse"
  PROVE  MeshSet
  <1> DEFINE node == [nodes[sceneNode] EXCEPT !.mesh = Tok.mesh, !.material = extMaterial,
                                              !.textureFilename = Tok.tex]
  <1>1. status = "parse" /\ GraphTypeOK /\ ~AtEof /\ Tok.op = "m"
    BY DEF ParseMesh, At, IInv, TypeOK
  <1>2. sceneNode \in 1..Len(nodes) /\ nodes \in Seq(NodeRecord(Len(nodes)))
    BY <1>1, ParseFacts DEF GraphTypeOK, NodeIds
  <1>3. nodes[sceneNode] \in NodeRecord(Len(nodes))
    BY <1>2, ElementOfSeq
  <1>4. nodes' = [nodes EXCEPT ![sceneNode] = node] /\ reader' = Advanced
    BY <1>2, <1>3 DEF ParseMesh, NodeRecord, Advance
  <1>5. node.mesh = Tok.mesh /\ node.xform = nodes[sceneNode].xform
    BY <1>3 DEF NodeRecord
  <1> HIDE DEF node
  <1>6. DOMAIN nodes = 1..Len(nodes)
    BY <1>2, LenProperties
  <1>7. /\ \A n \in NodeIds : n # sceneNode => nodes'[n].mesh = nodes[n].mesh
        /\ nodes'[sceneNode].mesh = Tok.mesh
        /\ XformsKept
    BY <1>2, <1>4, <1>5, <1>6 DEF NodeIds, XformsKept
  <1> QED BY <1>1, <1>4, <1>7, MeshLinks DEF MeshSet

LEMMA NodeSteps ==
  ASSUME IInv, [Next]_vars, status = "parse", status' = "parse"
  PROVE  NodeStep
  <1>0. scene' = scene
    BY ReaderStep
  <1>1. CASE UNCHANGED <<scene, nodes, includefileToNodeMap>>
    BY <1>1 DEF NodeStep, NodesAsBefore, NoNewLink, XformsKept, MeshesKept, HasChild
  <1>2. CASE StaticXform
    <2>1. GraphTypeOK /\ ~AtEof
      BY <1>2 DEF StaticXform, At, IInv, TypeOK
    <2>2. Tok \in Token /\ Tok.op = "xs"
      BY <1>2, <2>1, TokPlace DEF StaticXform, At
    <2>3. <<Tok.xf>> \in Matrix
      <3>1. Tok.xf \in Transform
        BY <2>2 DEF Token
      <3> QED BY <3>1 DEF Matrix
    <2>4. PushNode("static", <<Tok.xf>>, fileScopeStack)
      BY <1>2 DEF StaticXform
    <2>5. NodeAdded
      BY <2>1, <2>3, <2>4, ParseFacts, PushNodeShape, PushNodeMeshes DEF GraphTypeOK, NodeAdded
    <2> QED BY <2>5 DEF NodeStep
  <1>3. CASE AnimatedXform
    <2>1. GraphTypeOK /\ ~AtEof
      BY <1>3 DEF AnimatedXform, At, IInv, TypeOK
    <2>2. Tok \in Token /\ Tok.op = "x"
      BY <1>3, <2>1, TokPlace DEF AnimatedXform, At
    <2>3. Tok.name \in XformName /\ Identity \in Matrix
      BY <2>2, EmptySeq DEF Token, Matrix, Identity
    <2>4. PushNode(Tok.name, Identity, fileScopeStack)
      BY <1>3 DEF AnimatedXform
    <2>5. NodeAdded
      BY <2>1, <2>3, <2>4, ParseFacts, PushNodeShape, PushNodeMeshes DEF GraphTypeOK, NodeAdded
    <2> QED BY <2>5 DEF NodeStep
  <1>4. CASE EndStatic \/ EndAnimated \/ IncludeReturn
    BY <1>0, <1>1, <1>4 DEF EndStatic, EndAnimated, IncludeReturn, PopNode
  <1>5. CASE AtInclude /\ \E arg \in IncludeArgs : IncludeSeen(arg[1])
    <2>1. PICK arg \in IncludeArgs : IncludeSeen(arg[1])
      BY <1>5
    <2>2. ~AtEof /\ Tok.op = "i" /\ arg[1] = Tok.file
      BY <1>5, IncludeOp
    <2>3. PICK c : c = includefileToNodeMap[arg[1]]
      OBVIOUS
    <2>4. nodes' = AddChild(nodes, sceneNode, c) /\ arg[1] \in DOMAIN includefileToNodeMap
      BY <2>1, <2>3 DEF IncludeSeen
    <2>5. /\ Len(nodes) \in Nat /\ c \in 1..Len(nodes)
          /\ sceneNode \in 1..Len(nodes) /\ nodes \in Seq(NodeRecord(Len(nodes)))
      BY <2>3, <2>4, ParseFacts, LenProperties DEF IInv, TypeOK, GraphTypeOK, NodeIds
    <2>6. SubtreeShared
      BY <2>2, <2>4, <2>5, AddChildFacts, AddChildMeshes
         DEF SubtreeShared, XformsKept, MeshesKept, NodeIds
    <2> QED BY <2>6 DEF NodeStep
  <1>6. CASE AtInclude /\ \E arg \in IncludeArgs : IncludeNew(arg[1], arg[2])
    <2>1. PICK arg \in IncludeArgs : IncludeNew(arg[1], arg[2])
      BY <1>6
    <2>2. PICK f : f = arg[1]
      OBVIOUS
    <2>3. f \in FileName
      BY <1>6, <2>2, IncludeArgsType
    <2>4. /\ fileScopeStack' = Append(fileScopeStack, f)
          /\ PushNode("null", Identity, fileScopeStack')
      BY <2>1, <2>2 DEF IncludeNew
    <2>5. PICK scopes : scopes = fileScopeStack'
      OBVIOUS
    <2>6. /\ scopes \in Seq(FileName \cup {"root"}) /\ scopes # << >>
          /\ Identity \in Matrix
      BY <2>3, <2>4, <2>5, PushFacts, AppendProperties, EmptySeq
         DEF IInv, TypeOK, GraphTypeOK, Matrix, Identity
    <2>7. GraphTypeOK /\ sceneNode \in NodeIds /\ PushNode("null", Identity, scopes)
      BY <2>4, <2>5, ParseFacts DEF IInv, TypeOK
    <2>8. NodeAdded
      BY <2>6, <2>7, PushNodeShape, PushNodeMeshes DEF NodeAdded
    <2> QED BY <2>8 DEF NodeStep
  <1>7. CASE AtInclude /\ \E arg \in IncludeArgs : IncludeSkip(arg[1], arg[2])
    BY <1>1, <1>7 DEF IncludeSkip, Stays, graphVars
  <1>8. CASE ParseMesh
    BY <1>8, MeshSteps DEF NodeStep
  <1>9. CASE LeafStep
    BY <1>1, <1>9, LeafStepGraph DEF graphVars
  <1>10. CASE UNCHANGED vars
    BY <1>1, <1>10 DEF vars, graphVars
  <1>11. ~Load
    BY DEF Load
  <1> QED BY <1>2, <1>3, <1>4, <1>5, <1>6, <1>7, <1>8, <1>9, <1>10, <1>11, NextCases

LEMMA ReadKept ==
  ASSUME IInv, [Next]_vars, status = "parse", status' = "parse", OpenOnce,
         NEW mesh, \E f, i : /\ Consumed(f, i) /\ scene[f][i].op = "m" /\ scene[f][i].mesh = mesh
  PROVE  \E f, i : /\ Consumed(f, i)' /\ scene'[f][i].op = "m" /\ scene'[f][i].mesh = mesh
  <1>1. scene' = scene /\ OpenStep
    BY ReaderStep, OpenSteps
  <1>2. PICK f, i : Consumed(f, i) /\ scene[f][i].op = "m" /\ scene[f][i].mesh = mesh
    OBVIOUS
  <1>3. Consumed(f, i)'
    BY <1>1, <1>2, ConsumedKept
  <1> QED BY <1>1, <1>2, <1>3

LEMMA MeshesStep ==
  ASSUME IInv, [Next]_vars, status = "parse", status' = "parse",
         OpenOnce, MeshesRead, MeshesOnce
  PROVE  MeshesRead' /\ MeshesOnce'
  <1>1. scene' = scene /\ OpenStep /\ NodeStep
    BY ReaderStep, OpenSteps, NodeSteps
  <1>2. PICK N \in Nat : N = Len(nodes) /\ NodeIds = 1..N
    BY LenProperties DEF IInv, TypeOK, GraphTypeOK, NodeIds
  <1>3. CASE MeshesKept /\ Len(nodes') = N
    <2>1. NodeIds' = NodeIds
      BY <1>2, <1>3 DEF NodeIds
    <2>2. MeshesOnce'
      BY <1>3, <2>1 DEF MeshesOnce, MeshesKept
    <2>3. MeshesRead'
      <3> SUFFICES ASSUME NEW n \in NodeIds, nodes'[n].mesh # None
                   PROVE  \E f, i : /\ Consumed(f, i)' /\ scene'[f][i].op = "m"
                                    /\ scene'[f][i].mesh = nodes'[n].mesh
        BY <2>1 DEF MeshesRead
      <3>1. nodes'[n].mesh = nodes[n].mesh
        BY <1>3 DEF MeshesKept
      <3>2. \E f, i : /\ Consumed(f, i) /\ scene[f][i].op = "m" /\ scene[f][i].mesh = nodes'[n].mesh
        BY <3>1 DEF MeshesRead
      <3> QED BY <3>2, ReadKept
    <2> QED BY <2>2, <2>3
  <1>4. CASE NodeAdded
    <2>1. NodeIds' = 1..(N + 1) /\ nodes'[N + 1].mesh = None
      BY <1>2, <1>4 DEF NodeIds, NodeAdded
    <2>2. \A n \in 1..(N + 1) : n = N + 1 \/ n \in 1..N
      OBVIOUS
    <2>3. \A n \in 1..(N + 1) : nodes'[n].mesh # None =>
            n \in NodeIds /\ nodes'[n].mesh = nodes[n].mesh
      BY <1>2, <1>4, <2>1, <2>2 DEF NodeAdded, MeshesKept
    <2>4. MeshesOnce'
      BY <2>1, <2>3 DEF MeshesOnce
    <2>5. MeshesRead'
      <3> SUFFICES ASSUME NEW n \in 1..(N + 1), nodes'[n].mesh # None
                   PROVE  \E f, i : /\ Consumed(f, i)' /\ scene'[f][i].op = "m"
                                    /\ scene'[f][i].mesh = nodes'[n].mesh
        BY <2>1 DEF MeshesRead
      <3>1. \E f, i : /\ Consumed(f, i) /\ scene[f][i].op = "m" /\ scene[f][i].mesh = nodes'[n].mesh
        BY <2>3 DEF MeshesRead
      <3> QED BY <3>1, ReadKept
    <2> QED BY <2>4, <2>5
  <1>5. CASE MeshSet
    <2>1. NodeIds' = NodeIds /\ sceneNode \in NodeIds
      BY <1>5, ParseFacts DEF NodeIds, MeshSet, NoNewLink
    <2>2. PICK g, i : g = Frame.file /\ i = Frame.pos
      OBVIOUS
    <2>3. g \in DOMAIN scene /\ i \in DOMAIN scene[g] /\ Tok = scene[g][i] /\ Tok.op = "m"
      BY <1>5, <2>2, TokPlace DEF MeshSet
    <2>4. Consumed(g, i)'
      <3>1. PICK n \in Nat \ {0} : n = Len(reader)
        BY FrameFacts
      <3>2. /\ Len(Advanced) = n
            /\ \A r \in 1..n : Advanced[r].file = reader[r].file /\ (r # n => Advanced[r] = reader[r])
            /\ Advanced[n].pos = reader[n].pos + 1
        BY <3>1, AdvancedFacts
      <3>3. FrameMoves(n) /\ Len(reader') = n /\ includefileToNodeMap' = includefileToNodeMap
        BY <1>5, <3>1, <3>2 DEF MeshSet, NoNewLink, FrameMoves
      <3> QED BY <1>1, <1>5, <2>2, <3>1, <3>3, TokenConsumed DEF MeshSet
    <2>5. ~Consumed(g, i)
      BY <2>2, TokenNotConsumed
    <2>6. \A n \in NodeIds : nodes[n].mesh = Tok.mesh => Tok.mesh = None
      <3> SUFFICES ASSUME NEW n \in NodeIds, nodes[n].mesh = Tok.mesh, Tok.mesh # None
                   PROVE  FALSE
        OBVIOUS
      <3>1. PICK f, j : Consumed(f, j) /\ scene[f][j].op = "m" /\ scene[f][j].mesh = Tok.mesh
        BY DEF MeshesRead
      <3>2. f \in DOMAIN scene /\ j \in DOMAIN scene[f]
        BY <3>1 DEF Consumed
      <3>3. DistinctMeshes(scene)
        BY DistinctMeshesAssumption DEF IInv
      <3>4. f = g /\ j = i
        BY <2>3, <3>1, <3>2, <3>3 DEF DistinctMeshes
      <3> QED BY <2>5, <3>1, <3>4
    <2>7. \A n \in NodeIds : n # sceneNode => nodes'[n].mesh = nodes[n].mesh
      BY <1>5 DEF MeshSet
    <2>8. nodes'[sceneNode].mesh = Tok.mesh
      BY <1>5 DEF MeshSet
    <2>9. MeshesOnce'
      <3> SUFFICES ASSUME NEW m \in NodeIds, NEW n \in NodeIds,
                          nodes'[m].mesh = nodes'[n].mesh, nodes'[m].mesh # None
                   PROVE  m = n
        BY <2>1 DEF MeshesOnce
      <3>1. CASE m # sceneNode /\ n # sceneNode
        BY <2>7, <3>1 DEF MeshesOnce
      <3>2. CASE m = sceneNode /\ n # sceneNode
        BY <2>6, <2>7, <2>8, <3>2
      <3>3. CASE m # sceneNode /\ n = sceneNode
        BY <2>6, <2>7, <2>8, <3>3
      <3> QED BY <3>1, <3>2, <3>3
    <2>10. MeshesRead'
      <3> SUFFICES ASSUME NEW n \in NodeIds, nodes'[n].mesh # None
                   PROVE  \E f, j : /\ Consumed(f, j)' /\ scene'[f][j].op = "m"
                                    /\ scene'[f][j].mesh = nodes'[n].mesh
        BY <2>1 DEF MeshesRead
      <3>1. CASE n = sceneNode
        BY <1>1, <2>3, <2>4, <2>8, <3>1
      <3>2. CASE n # sceneNode
        <4>1. \E f, j : /\ Consumed(f, j) /\ scene[f][j].op = "m" /\ scene[f][j].mesh = nodes'[n].mesh
          BY <2>7, <3>2 DEF MeshesRead
        <4> QED BY <4>1, ReadKept
      <3> QED BY <3>1, <3>2
    <2> QED BY <2>9, <2>10
  <1> QED BY <1>1, <1>2, <1>3, <1>4, <1>5 DEF NodeStep, NodesAsBefore, NoNewLink, SubtreeShared

-----------------------------------------------------------------------------
(* Where no file is included twice, no subtree is shared, and every node   *)
(* has one path from the root                                              *)

(* every include file in the map was found by an include that has been read *)
IncludesRead ==
  \A g \in DOMAIN includefileToNodeMap :
    \E f, i : Consumed(f, i) /\ scene[f][i].op = "i" /\ scene[f][i].file = g

LEMMA IncludesStep ==
  ASSUME IInv, [Next]_vars, status = "parse", status' = "parse", OpenOnce, IncludesRead
  PROVE  IncludesRead'
  <1>1. scene' = scene /\ OpenStep
    BY ReaderStep, OpenSteps
  <1>2. PICK n \in Nat \ {0} : n = Len(reader)
    BY FrameFacts
  <1>3. OpenMove(n)
    BY <1>1, <1>2, OpenMoves
  <1> SUFFICES ASSUME NEW g, g \in DOMAIN includefileToNodeMap'
               PROVE  \E f, i : /\ Consumed(f, i)' /\ scene'[f][i].op = "i"
                                /\ scene'[f][i].file = g
    BY DEF IncludesRead
  <1>4. CASE g \in DOMAIN includefileToNodeMap
    <2>1. PICK f, i : Consumed(f, i) /\ scene[f][i].op = "i" /\ scene[f][i].file = g
      BY <1>4 DEF IncludesRead
    <2>2. Consumed(f, i)'
      BY <1>1, <2>1, ConsumedKept
    <2> QED BY <1>1, <2>1, <2>2
  <1>5. CASE g \notin DOMAIN includefileToNodeMap
    <2>1. ~AtEof /\ FrameMoves(n) /\ OpensFile(n, g)
      BY <1>3, <1>5 DEF OpenMove, FramesStay, OpensFile
    <2>2. PICK f, i : f = Frame.file /\ i = Frame.pos
      OBVIOUS
    <2>3. scene[f][i] = Tok /\ Tok.op = "i" /\ Tok.file = g
      BY <2>1, <2>2, TokPlace DEF OpensFile
    <2>4. Consumed(f, i)'
      BY <1>1, <1>2, <2>1, <2>2, TokenConsumed
    <2> QED BY <1>1, <2>3, <2>4
  <1> QED BY <1>4, <1>5

LEMMA NothingShared ==
  ASSUME IInv, status = "parse", IncludesRead, NoFileTwice(scene)
  PROVE  ~SubtreeShared
  <1> SUFFICES ASSUME SubtreeShared PROVE FALSE
    OBVIOUS
  <1>1. PICK g, i : g = Frame.file /\ i = Frame.pos
    OBVIOUS
  <1>2. g \in DOMAIN scene /\ i \in DOMAIN scene[g] /\ Tok = scene[g][i] /\ Tok.op = "i"
    BY <1>1, TokPlace DEF SubtreeShared
  <1>3. PICK f, j : Consumed(f, j) /\ scene[f][j].op = "i" /\ scene[f][j].file = Tok.file
    BY DEF SubtreeShared, IncludesRead
  <1>4. f \in DOMAIN scene /\ j \in DOMAIN scene[f]
    BY <1>3 DEF Consumed
  <1>5. f = g /\ j = i
    BY <1>2, <1>3, <1>4 DEF NoFileTwice
  <1> QED BY <1>1, <1>3, <1>5, TokenNotConsumed

(* P gives every node the product of the transforms above it *)
Paths(P) ==
  /\ P[1] = Identity
  /\ \A p \in NodeIds : \A c : HasChild(nodes, p, c) => P[c] = Combined(P[p], nodes[p].xform)

LEMMA PathsStep ==
  ASSUME IInv, [Next]_vars, status = "parse", status' = "parse",
         IncludesRead, NoFileTwice(scene), NEW P, Paths(P)
  PROVE  \E Q : Paths(Q)'
  <1>1. NodesAsBefore \/ NodeAdded \/ MeshSet
    BY NodeSteps, NothingShared DEF NodeStep
  <1>2. PICK N \in Nat \ {0} : N = Len(nodes) /\ NodeIds = 1..N
    BY ParseFacts DEF NodeIds
  <1>3. CASE NoNewLink /\ XformsKept
    <2>1. NodeIds' = NodeIds
      BY <1>3 DEF NodeIds, NoNewLink
    <2>2. \A p \in NodeIds : \A c : HasChild(nodes', p, c) => P[c] = Combined(P[p], nodes'[p].xform)
      BY <1>2, <1>3 DEF NoNewLink, XformsKept, Paths
    <2>3. Paths(P)'
      BY <2>1, <2>2 DEF Paths, HasChild, Identity
    <2> QED BY <2>3
  <1>4. CASE NodeAdded
    <2>1. PICK Q : Q = [n \in 1..(N + 1) |->
                          IF n = N + 1 THEN Combined(P[sceneNode], nodes[sceneNode].xform) ELSE P[n]]
      OBVIOUS
    <2>2. /\ Q[N + 1] = Combined(P[sceneNode], nodes[sceneNode].xform)
          /\ \A n \in 1..N : Q[n] = P[n]
      BY <2>1
    <2>3. sceneNode \in 1..N /\ 1 \in 1..N
      BY <1>2, ParseFacts
    <2>4. ASSUME NEW p \in 1..(N + 1), NEW c, HasChild(nodes', p, c)
          PROVE  Q[c] = Combined(Q[p], nodes'[p].xform)
      <3>1. Len(nodes') = N + 1 /\ NewEdge(nodes, nodes', sceneNode, N + 1)
        BY <1>2, <1>4 DEF NodeAdded
      <3>2. (p \in 1..N /\ HasChild(nodes, p, c)) \/ (p = sceneNode /\ c = N + 1)
        BY <1>2, <2>4, <3>1 DEF NewEdge
      <3>3. p \in 1..N /\ nodes'[p].xform = nodes[p].xform
        BY <1>2, <1>4, <2>3, <3>2 DEF NodeAdded, XformsKept
      <3>4. CASE HasChild(nodes, p, c)
        <4>1. c \in 1..N
          <5>1. nodes \in Seq(NodeRecord(N)) /\ p \in 1..Len(nodes)
            BY <1>2, <3>3 DEF IInv, TypeOK, GraphTypeOK
          <5>2. nodes[p] \in NodeRecord(N)
            BY <5>1, ElementOfSeq
          <5>3. nodes[p].children \in Seq(1..N)
            BY <5>2 DEF NodeRecord
          <5>4. DOMAIN nodes[p].children = 1..Len(nodes[p].children)
            BY <5>3, LenProperties
          <5> QED BY <3>4, <5>3, <5>4, ElementOfSeq DEF HasChild
        <4> QED BY <1>2, <2>2, <3>3, <3>4, <4>1 DEF Paths
      <3>5. CASE p = sceneNode /\ c = N + 1
        BY <2>2, <2>3, <3>3, <3>5
      <3> QED BY <3>2, <3>4, <3>5
    <2>5. Q[1] = Identity
      BY <2>2, <2>3 DEF Paths
    <2>6. NodeIds' = 1..(N + 1)
      BY <1>2, <1>4 DEF NodeIds, NodeAdded
    <2>7. Paths(Q)'
      BY <2>4, <2>5, <2>6 DEF Paths, HasChild, Identity
    <2> QED BY <2>7
  <1> QED BY <1>1, <1>3, <1>4 DEF NodesAsBefore, MeshSet

-----------------------------------------------------------------------------
(* The list the walk makes                                                 *)

(* every entry of the list is that of a node with a mesh *)
ListFromNodes ==
  \A k \in 1..Len(flattened) : \E n \in NodeIds :
    /\ nodes[n].mesh # None /\ flattened[k].meshData = nodes[n].mesh
    /\ flattened[k].material = nodes[n].material
    /\ flattened[k].textureFilename = nodes[n].textureFilename

WalkPaths(P) == \A k \in 1..Len(walk) : walk[k].parentXform = P[walk[k].node]

ListPaths(P) ==
  \A k \in 1..Len(flattened) : \E n \in NodeIds :
    /\ nodes[n].mesh # None /\ flattened[k].meshData = nodes[n].mesh
    /\ flattened[k].xform = Combined(P[n], nodes[n].xform)

LoadInv ==
  /\ status = "idle" => includefileToNodeMap = << >>
  /\ status \in {"idle", "parse"} => flattened = << >>
  /\ status = "parse" =>
       /\ OpenOnce /\ MeshesRead /\ MeshesOnce
       /\ NoFileTwice(scene) => IncludesRead /\ \E P : Paths(P)
  /\ status \in {"flatten", "done"} =>
       /\ MeshesOnce /\ ListFromNodes
       /\ NoFileTwice(scene) => \E P : Paths(P) /\ WalkPaths(P) /\ ListPaths(P)

LEMMA LoadBegins ==
  ASSUME IInv, Load, includefileToNodeMap = << >>, status' = "parse"
  PROVE  OpenOnce' /\ MeshesRead' /\ MeshesOnce' /\ IncludesRead' /\ \E P : Paths(P)'
  <1>1. /\ nodes' = <<NewNode("root", "root", Identity)>>
        /\ reader' = <<[file |-> Main, pos |-> 1]>>
        /\ includefileToNodeMap' = includefileToNodeMap /\ status = "idle"
    BY DEF Load
  <1>2. DOMAIN includefileToNodeMap' = {}
    BY <1>1, EmptySeq
  <1>3. NodeIds' = {1} /\ nodes'[1].mesh = None /\ nodes'[1].children = << >>
    BY <1>1 DEF NodeIds, NewNode
  <1>4. OpenOnce'
    BY <1>1, <1>2 DEF OpenOnce, Opened
  <1>5. MeshesRead' /\ MeshesOnce'
    BY <1>3 DEF MeshesRead, MeshesOnce
  <1>6. IncludesRead'
    BY <1>2 DEF IncludesRead
  <1>7. PICK P : P = [n \in {1} |-> Identity]
    OBVIOUS
  <1>8. \A p \in NodeIds' : \A c : ~HasChild(nodes', p, c)
    BY <1>3 DEF HasChild
  <1>9. Paths(P)'
    BY <1>7, <1>8 DEF Paths, HasChild, Identity
  <1> QED BY <1>4, <1>5, <1>6, <1>9

(* a call of the walk adds at most one entry, that of its node *)
LEMMA ListStep ==
  ASSUME IInv, Flatten, status' = "flatten", NEW N, N = Len(nodes)
  PROVE  \E n \in 1..N :
           /\ n = walk[1].node
           /\ \/ flattened' = flattened
              \/ /\ nodes[n].mesh # None /\ Len(flattened) \in Nat
                 /\ Len(flattened') = Len(flattened) + 1
                 /\ \A k \in 1..Len(flattened) : flattened'[k] = flattened[k]
                 /\ flattened'[Len(flattened) + 1] =
                      InstanceOf(n, Combined(walk[1].parentXform, nodes[n].xform))
  <1>1. /\ N \in Nat /\ Head(walk) = walk[1] /\ walk[1] \in Call(N)
        /\ nodes[walk[1].node] \in NodeRecord(N)
    BY WalkHead
  <1>2. PICK n \in 1..N : n = walk[1].node
    BY <1>1 DEF Call
  <1>3. PICK xf : xf = Combined(walk[1].parentXform, nodes[n].xform)
    OBVIOUS
  <1>4. xf \in Matrix
    BY <1>1, <1>2, <1>3, ConcatProperties DEF Matrix, Combined, Call, NodeRecord
  <1>5. flattened' = IF nodes[n].mesh = None THEN flattened ELSE Append(flattened, InstanceOf(n, xf))
    BY <1>1, <1>2, <1>3 DEF Flatten
  <1>6. CASE nodes[n].mesh = None
    BY <1>2, <1>5, <1>6
  <1>7. CASE nodes[n].mesh # None
    <2> DEFINE Inst == [meshData : Mesh, material : Material \cup {None},
                        textureFilename : Texture \cup {None}, xform : Matrix]
    <2>1. flattened \in Seq(Inst)
      BY DEF IInv, TypeOK, WalkTypeOK
    <2>2. InstanceOf(n, xf) \in Inst
      BY <1>1, <1>2, <1>4, <1>7 DEF InstanceOf, NodeRecord
    <2> HIDE DEF Inst
    <2>3. PICK e \in Inst : e = InstanceOf(n, xf)
      BY <2>2
    <2>4. flattened' = Append(flattened, e)
      BY <1>5, <1>7, <2>3
    <2>5. /\ Len(flattened) \in Nat /\ Len(flattened') = Len(flattened) + 1
          /\ \A k \in 1..Len(flattened) : flattened'[k] = flattened[k]
          /\ flattened'[Len(flattened) + 1] = e
      BY <2>1, <2>4, AppendProperties, LenProperties
    <2> QED BY <1>2, <1>3, <1>7, <2>3, <2>5
  <1> QED BY <1>6, <1>7

LEMMA WalkPathsStep ==
  ASSUME IInv, Flatten, status' = "flatten", nodes' = nodes,
         NEW P, Paths(P), WalkPaths(P), ListPaths(P)
  PROVE  Paths(P)' /\ WalkPaths(P)' /\ ListPaths(P)'
  <1>1. PICK k \in Nat, t \in Nat : WalkShape(k, t)
    BY WalkShapes
  <1>2. PICK N : N = Len(nodes)
    OBVIOUS
  <1>3. PICK n \in 1..N :
           /\ n = walk[1].node
           /\ \/ flattened' = flattened
              \/ /\ nodes[n].mesh # None /\ Len(flattened) \in Nat
                 /\ Len(flattened') = Len(flattened) + 1
                 /\ \A j \in 1..Len(flattened) : flattened'[j] = flattened[j]
                 /\ flattened'[Len(flattened) + 1] =
                      InstanceOf(n, Combined(walk[1].parentXform, nodes[n].xform))
    BY <1>2, ListStep
  <1>4. walk[1].parentXform = P[n]
    BY <1>1, <1>3 DEF WalkPaths, WalkShape
  <1>5. Paths(P)'
    BY DEF Paths, HasChild, NodeIds, Identity
  <1>6. \A i \in 1..k : walk'[i].parentXform = P[walk'[i].node]
    <2> SUFFICES ASSUME NEW i \in 1..k PROVE walk'[i].parentXform = P[walk'[i].node]
      OBVIOUS
    <2>1. HasChild(nodes, n, walk'[i].node) /\ walk'[i].parentXform = Combined(P[n], nodes[n].xform)
      BY <1>1, <1>3, <1>4 DEF WalkShape
    <2> QED BY <1>2, <2>1 DEF Paths, NodeIds
  <1>7. \A i \in 1..t : i + 1 \in 1..Len(walk) /\ walk'[k + i] = walk[i + 1]
    BY <1>1 DEF WalkShape
  <1>8. \A i \in 1..t : walk'[k + i].parentXform = P[walk'[k + i].node]
    BY <1>7 DEF WalkPaths
  <1>9. WalkPaths(P)'
    <2> SUFFICES ASSUME NEW i \in 1..(k + t) PROVE walk'[i].parentXform = P[walk'[i].node]
      BY <1>1 DEF WalkPaths, WalkShape
    <2>1. CASE i \in 1..k
      BY <1>6, <2>1
    <2>2. CASE i \notin 1..k
      <3>1. PICK j \in 1..t : i = k + j
        <4>1. i - k \in 1..t /\ i = k + (i - k)
          BY <2>2
        <4> QED BY <4>1
      <3> QED BY <1>8, <3>1
    <2> QED BY <2>1, <2>2
  <1>10. ListPaths(P)'
    <2>1. NodeIds' = NodeIds /\ n \in NodeIds
      BY <1>2 DEF NodeIds
    <2>2. CASE flattened' = flattened
      BY <2>1, <2>2 DEF ListPaths
    <2>3. CASE flattened' # flattened
      <3> SUFFICES ASSUME NEW j \in 1..Len(flattened')
                   PROVE  \E m \in NodeIds :
                            /\ nodes[m].mesh # None /\ flattened'[j].meshData = nodes[m].mesh
                            /\ flattened'[j].xform = Combined(P[m], nodes[m].xform)
        BY <2>1 DEF ListPaths
      <3>1. CASE j \in 1..Len(flattened)
        BY <1>3, <2>3, <3>1 DEF ListPaths
      <3>2. CASE j \notin 1..Len(flattened)
        <4>1. j = Len(flattened) + 1
          BY <1>3, <2>3, <3>2
        <4>2. flattened'[j] = InstanceOf(n, Combined(P[n], nodes[n].xform)) /\ nodes[n].mesh # None
          BY <1>3, <1>4, <2>3, <4>1
        <4> QED BY <2>1, <4>2 DEF InstanceOf
      <3> QED BY <3>1, <3>2
    <2> QED BY <2>2, <2>3
  <1> QED BY <1>5, <1>9, <1>10

LEMMA ListNodesStep ==
  ASSUME IInv, Flatten, status' = "flatten", nodes' = nodes, ListFromNodes
  PROVE  ListFromNodes'
  <1>1. PICK N : N = Len(nodes)
    OBVIOUS
  <1>2. PICK n \in 1..N :
           \/ flattened' = flattened
           \/ /\ nodes[n].mesh # None /\ Len(flattened) \in Nat
              /\ Len(flattened') = Len(flattened) + 1
              /\ \A j \in 1..Len(flattened) : flattened'[j] = flattened[j]
              /\ flattened'[Len(flattened) + 1] =
                   InstanceOf(n, Combined(walk[1].parentXform, nodes[n].xform))
    BY <1>1, ListStep
  <1>3. NodeIds' = NodeIds /\ n \in NodeIds
    BY <1>1 DEF NodeIds
  <1>4. CASE flattened' = flattened
    BY <1>3, <1>4 DEF ListFromNodes
  <1>5. CASE flattened' # flattened
    <2> SUFFICES ASSUME NEW j \in 1..Len(flattened')
                 PROVE  \E m \in NodeIds :
                          /\ nodes[m].mesh # None /\ flattened'[j].meshData = nodes[m].mesh
                          /\ flattened'[j].material = nodes[m].material
                          /\ flattened'[j].textureFilename = nodes[m].textureFilename
      BY <1>3 DEF ListFromNodes
    <2>1. CASE j \in 1..Len(flattened)
      BY <1>2, <1>5, <2>1 DEF ListFromNodes
    <2>2. CASE j \notin 1..Len(flattened)
      <3>1. j = Len(flattened) + 1
        BY <1>2, <1>5, <2>2
      <3>2. \E xf : flattened'[j] = InstanceOf(n, xf) /\ nodes[n].mesh # None
        BY <1>2, <1>5, <3>1
      <3> QED BY <1>3, <3>2 DEF InstanceOf
    <2> QED BY <2>1, <2>2
  <1> QED BY <1>4, <1>5

LEMMA StatusSteps ==
  ASSUME IInv, [Next]_vars
  PROVE  \/ UNCHANGED vars \/ Load \/ ParseDone \/ Flatten \/ LoadReturn
         \/ /\ status = "parse" /\ status' \in {"parse", "failed", "undefined", "overflow"}
            /\ flattened' = flattened
  <1>2. CASE StaticXform \/ AnimatedXform \/ EndStatic \/ EndAnimated \/ EndUnmatched
    BY <1>2 DEF StaticXform, AnimatedXform, EndStatic, EndAnimated, EndUnmatched, At, Stays,
                walkVars
  <1>3. CASE ParseDetailLevel \/ ParseFill \/ ParseMesh \/ ParseSphereOrCone \/ ParsePoly
               \/ ParseTexturedTriangle \/ ParseOther \/ ParseError
    BY <1>3 DEF ParseDetailLevel, ParseFill, ParseMesh, ParseSphereOrCone, ParsePoly,
                ParseTexturedTriangle, ParseOther, ParseError, At, Stays, walkVars
  <1>4. CASE IncludeReturn
    BY <1>4 DEF IncludeReturn, Stays, walkVars
  <1>5. CASE Include
    BY <1>5 DEF Include, IncludeSeen, IncludeNew, IncludeSkip, AtInclude, At, Stays, walkVars
  <1> QED BY <1>2, <1>3, <1>4, <1>5 DEF Next

LEMMA LoadInvStep ==
  ASSUME IInv, LoadInv, [Next]_vars
  PROVE  LoadInv'
  <1>0. scene' = scene
    BY ReaderStep
  <1>1. CASE UNCHANGED vars
    BY <1>1 DEF vars, graphVars, xformVars, walkVars, LoadInv, OpenOnce, Opened, MeshesRead,
                Consumed, MeshesOnce, IncludesRead, Paths, WalkPaths, ListPaths, ListFromNodes,
                NodeIds, HasChild, Identity
  <1>2. CASE Load
    <2>1. status = "idle" /\ status' \in {"parse", "failed"} /\ flattened' = flattened
      BY <1>2 DEF Load, walkVars
    <2>2. includefileToNodeMap = << >> /\ flattened = << >>
      BY <2>1 DEF LoadInv
    <2>3. status' = "parse" =>
            /\ OpenOnce' /\ MeshesRead' /\ MeshesOnce'
            /\ NoFileTwice(scene') => IncludesRead' /\ \E P : Paths(P)'
      BY <1>2, <2>2, LoadBegins
    <2> QED BY <2>1, <2>2, <2>3 DEF LoadInv
  <1>3. CASE status = "parse" /\ status' = "parse"
    <2>1. OpenOnce /\ MeshesRead /\ MeshesOnce /\ flattened = << >>
      BY <1>3 DEF LoadInv
    <2>2. OpenOnce' /\ MeshesRead' /\ MeshesOnce'
      BY <1>3, <2>1, OpenSteps, OpenOnceStep, MeshesStep
    <2>3. flattened' = flattened
      BY <1>3, StatusSteps DEF vars, walkVars, Load, ParseDone, Flatten, LoadReturn
    <2>4. ASSUME NoFileTwice(scene)
          PROVE  IncludesRead' /\ \E P : Paths(P)'
      <3>1. IncludesRead /\ \E P : Paths(P)
        BY <1>3, <2>4 DEF LoadInv
      <3> QED BY <1>3, <2>1, <2>4, <3>1, IncludesStep, PathsStep
    <2> QED BY <1>0, <1>3, <2>1, <2>2, <2>3, <2>4 DEF LoadInv
  <1>4. CASE status = "parse" /\ status' \in {"failed", "undefined", "overflow"}
    BY <1>4 DEF LoadInv
  <1>5. CASE ParseDone
    <2>1. /\ nodes' = nodes /\ status = "parse" /\ status' = "flatten" /\ flattened' = flattened
          /\ walk' = <<[node |-> 1, parentXform |-> Identity, depth |-> 1]>>
      BY <1>5 DEF ParseDone, graphVars
    <2>2. MeshesOnce /\ flattened = << >>
      BY <2>1 DEF LoadInv
    <2>3. MeshesOnce' /\ ListFromNodes'
      BY <2>1, <2>2 DEF MeshesOnce, NodeIds, ListFromNodes
    <2>4. ASSUME NoFileTwice(scene)
          PROVE  \E P : Paths(P)' /\ WalkPaths(P)' /\ ListPaths(P)'
      <3>1. PICK P : Paths(P)
        BY <2>1, <2>4 DEF LoadInv
      <3>2. Paths(P)'
        BY <2>1, <3>1 DEF Paths, NodeIds, HasChild, Identity
      <3>3. WalkPaths(P)'
        BY <2>1, <3>1 DEF WalkPaths, Paths
      <3>4. ListPaths(P)'
        BY <2>1, <2>2 DEF ListPaths
      <3> QED BY <3>2, <3>3, <3>4
    <2> QED BY <1>0, <2>1, <2>3, <2>4 DEF LoadInv
  <1>6. CASE Flatten
    <2>1. nodes' = nodes /\ status = "flatten" /\ status' \in {"flatten", "overflow"}
      BY <1>6 DEF Flatten, graphVars
    <2> SUFFICES ASSUME status' = "flatten" PROVE LoadInv'
      BY <2>1 DEF LoadInv
    <2>2. MeshesOnce /\ ListFromNodes
      BY <2>1 DEF LoadInv
    <2>3. MeshesOnce' /\ ListFromNodes'
      BY <1>6, <2>1, <2>2, ListNodesStep DEF MeshesOnce, NodeIds
    <2>4. ASSUME NoFileTwice(scene)
          PROVE  \E P : Paths(P)' /\ WalkPaths(P)' /\ ListPaths(P)'
      <3>1. PICK P : Paths(P) /\ WalkPaths(P) /\ ListPaths(P)
        BY <2>1, <2>4 DEF LoadInv
      <3>2. Paths(P)' /\ WalkPaths(P)' /\ ListPaths(P)'
        BY <1>6, <2>1, <3>1, WalkPathsStep
      <3> QED BY <3>2
    <2> QED BY <1>0, <2>1, <2>3, <2>4 DEF LoadInv
  <1>7. CASE LoadReturn
    <2>1. /\ nodes' = nodes /\ walk' = walk /\ flattened' = flattened
          /\ status = "flatten" /\ status' = "done"
      BY <1>7 DEF LoadReturn, graphVars, walkVars
    <2> QED BY <1>0, <2>1 DEF LoadInv, MeshesOnce, ListFromNodes, Paths, WalkPaths, ListPaths,
                              NodeIds, HasChild, Identity
  <1> QED BY <1>1, <1>2, <1>3, <1>4, <1>5, <1>6, <1>7, StatusSteps

(* entries of one mesh look alike, and where no file is included twice are one *)
ListAlike ==
  \A j, k \in 1..Len(flattened) : flattened[j].meshData = flattened[k].meshData =>
    /\ flattened[j].material = flattened[k].material
    /\ flattened[j].textureFilename = flattened[k].textureFilename
    /\ NoFileTwice(scene) => flattened[j].xform = flattened[k].xform

LEMMA DoneListAlike ==
  ASSUME LoadInv, status = "done"
  PROVE  ListAlike
  <1>1. MeshesOnce /\ ListFromNodes
    BY DEF LoadInv
  <1> SUFFICES ASSUME NEW j \in 1..Len(flattened), NEW k \in 1..Len(flattened),
                      flattened[j].meshData = flattened[k].meshData
               PROVE  /\ flattened[j].material = flattened[k].material
                      /\ flattened[j].textureFilename = flattened[k].textureFilename
                      /\ NoFileTwice(scene) => flattened[j].xform = flattened[k].xform
    BY DEF ListAlike
  <1>2. /\ flattened[j].material = flattened[k].material
        /\ flattened[j].textureFilename = flattened[k].textureFilename
    BY <1>1 DEF MeshesOnce, ListFromNodes
  <1>3. ASSUME NoFileTwice(scene)
        PROVE  flattened[j].xform = flattened[k].xform
    <2>1. PICK P : ListPaths(P)
      BY <1>3 DEF LoadInv
    <2> QED BY <1>1, <2>1 DEF MeshesOnce, ListPaths
  <1> QED BY <1>2, <1>3

-----------------------------------------------------------------------------
(* initScene                                                               *)

Group == [geometry : Mesh, transform : Matrix, material : Material \cup {None}]

SetupInv ==
  /\ status # "done" => topLevelGroup = << >> /\ meshdata_optixmesh_map = << >>
  /\ topLevelGroup \in Seq(Group)
  /\ Len(topLevelGroup) <= Len(flattened)
  /\ \A k \in Instances :
       LET mesh == flattened[k].meshData IN
       /\ topLevelGroup[k].geometry = mesh
       /\ topLevelGroup[k].material = flattened[k].material
       /\ topLevelGroup[k].transform = flattened[k].xform
       /\ mesh \in DOMAIN meshdata_optixmesh_map
       /\ meshdata_optixmesh_map[mesh].material = flattened[k].material
       /\ meshdata_optixmesh_map[mesh].texture = flattened[k].textureFilename
       /\ NoFileTwice(scene) => meshdata_optixmesh_map[mesh].xform = flattened[k].xform
  /\ \A mesh \in DOMAIN meshdata_optixmesh_map :
       \E k \in Instances : mesh = flattened[k].meshData

LEMMA AddBartNodeStep ==
  ASSUME IInv, LoadInv, SetupInv, AddBartNode
  PROVE  SetupInv'
  <1>1. /\ status = "done" /\ UNCHANGED vars
        /\ Len(topLevelGroup) < Len(flattened)
        /\ meshdata_optixmesh_map' = Put(meshdata_optixmesh_map, Key(BartNode), Shown(BartNode))
        /\ topLevelGroup' = Append(topLevelGroup, Instance(BartNode))
    BY DEF AddBartNode, Looping, MoreNodes
  <1>2. ListAlike
    BY <1>1, DoneListAlike
  <1>3. PICK n \in Nat : n = Len(topLevelGroup) /\ DOMAIN topLevelGroup = 1..n
    BY LenProperties DEF SetupInv
  <1>4. PICK L \in Nat : L = Len(flattened) /\ n + 1 \in 1..L
    <2>1. Len(flattened) \in Nat
      BY LenProperties DEF IInv, TypeOK, WalkTypeOK
    <2> QED BY <1>1, <1>3, <2>1
  <1>5. PICK node : node = BartNode /\ node = flattened[n + 1]
    BY <1>3 DEF BartNode
  <1>6. /\ node.meshData \in Mesh /\ node.xform \in Matrix
        /\ node.material \in Material \cup {None}
    <2>1. PICK S : S = [meshData : Mesh, material : Material \cup {None},
                        textureFilename : Texture \cup {None}, xform : Matrix]
      OBVIOUS
    <2>2. flattened \in Seq(S)
      BY <2>1 DEF IInv, TypeOK, WalkTypeOK
    <2>3. \A i \in 1..L : flattened[i] \in S
      BY <1>4, <2>2, ElementOfSeq
    <2>4. node \in S
      BY <1>4, <1>5, <2>3
    <2> QED BY <2>1, <2>4
  <1>7. PICK mesh : mesh = node.meshData /\ mesh = Key(node)
    BY DEF Key
  <1>8. PICK new : new = Instance(node)
    OBVIOUS
  <1>9. /\ new \in Group /\ new.geometry = mesh /\ new.material = node.material
        /\ new.transform = node.xform
    BY <1>6, <1>7, <1>8 DEF Instance, Group
  <1>10. /\ topLevelGroup' \in Seq(Group) /\ Len(topLevelGroup') = n + 1
         /\ DOMAIN topLevelGroup' = 1..(n + 1)
         /\ \A k \in 1..n : topLevelGroup'[k] = topLevelGroup[k]
         /\ topLevelGroup'[n + 1] = new
    <2>1. topLevelGroup' = Append(topLevelGroup, new) /\ topLevelGroup \in Seq(Group)
      BY <1>1, <1>5, <1>8 DEF SetupInv
    <2> QED BY <1>3, <1>9, <2>1, AppendProperties, LenProperties
  <1>11. PICK shown : shown = Shown(node)
    OBVIOUS
  <1>12. /\ DOMAIN meshdata_optixmesh_map' = DOMAIN meshdata_optixmesh_map \cup {mesh}
         /\ meshdata_optixmesh_map'[mesh] = shown
         /\ \A m \in DOMAIN meshdata_optixmesh_map :
              m # mesh => meshdata_optixmesh_map'[m] = meshdata_optixmesh_map[m]
    <2>1. meshdata_optixmesh_map' = Put(meshdata_optixmesh_map, mesh, shown)
      BY <1>1, <1>5, <1>7, <1>11
    <2> QED BY <2>1 DEF Put
  <1>13. /\ shown.material = node.material /\ shown.xform = node.xform
         /\ shown.texture = IF node.textureFilename = None THEN TriMesh(node).texture
                            ELSE node.textureFilename
    BY <1>11 DEF Shown
  <1>14. shown.texture = node.textureFilename
    <2> SUFFICES ASSUME node.textureFilename = None PROVE TriMesh(node).texture = None
      BY <1>13
    <2>1. CASE mesh \in DOMAIN meshdata_optixmesh_map
      <3>1. PICK k \in 1..n : mesh = flattened[k].meshData
        BY <1>3, <2>1 DEF SetupInv, Instances
      <3>2. meshdata_optixmesh_map[mesh].texture = flattened[k].textureFilename
        BY <1>3, <3>1 DEF SetupInv, Instances
      <3>3. k \in 1..L /\ n + 1 \in 1..L
        BY <1>4
      <3>4. flattened[k].textureFilename = flattened[n + 1].textureFilename
        BY <1>2, <1>4, <1>5, <1>7, <3>1, <3>3 DEF ListAlike
      <3> QED BY <1>5, <1>7, <2>1, <3>2, <3>4 DEF TriMesh
    <2>2. CASE mesh \notin DOMAIN meshdata_optixmesh_map
      BY <1>7, <2>2 DEF TriMesh, NewTriMesh
    <2> QED BY <2>1, <2>2
  <1>15. flattened' = flattened /\ scene' = scene /\ status' = "done"
    BY <1>1 DEF vars, walkVars
  <1>16. ASSUME NEW k \in 1..(n + 1), NEW m, m = flattened[k].meshData
         PROVE  /\ topLevelGroup'[k].geometry = m
                /\ topLevelGroup'[k].material = flattened[k].material
                /\ topLevelGroup'[k].transform = flattened[k].xform
                /\ m \in DOMAIN meshdata_optixmesh_map'
                /\ meshdata_optixmesh_map'[m].material = flattened[k].material
                /\ meshdata_optixmesh_map'[m].texture = flattened[k].textureFilename
                /\ NoFileTwice(scene) => meshdata_optixmesh_map'[m].xform = flattened[k].xform
    <2>1. k \in 1..L /\ n + 1 \in 1..L /\ (k = n + 1 \/ k \in 1..n)
      BY <1>4
    <2>2. CASE k = n + 1
      BY <1>5, <1>7, <1>9, <1>10, <1>12, <1>13, <1>14, <1>16, <2>2
    <2>3. CASE k \in 1..n
      <3>1. /\ topLevelGroup[k].geometry = m
            /\ topLevelGroup[k].material = flattened[k].material
            /\ topLevelGroup[k].transform = flattened[k].xform
            /\ m \in DOMAIN meshdata_optixmesh_map
            /\ meshdata_optixmesh_map[m].material = flattened[k].material
            /\ meshdata_optixmesh_map[m].texture = flattened[k].textureFilename
            /\ NoFileTwice(scene) => meshdata_optixmesh_map[m].xform = flattened[k].xform
        BY <1>3, <1>16, <2>3 DEF SetupInv, Instances
      <3>2. topLevelGroup'[k] = topLevelGroup[k]
        BY <1>10, <2>3
      <3>3. CASE m # mesh
        BY <1>12, <3>1, <3>2, <3>3
      <3>4. CASE m = mesh
        <4>1. /\ flattened[k].material = node.material
              /\ flattened[k].textureFilename = node.textureFilename
              /\ NoFileTwice(scene) => flattened[k].xform = node.xform
          <5>1. \A i, j \in 1..L : flattened[i].meshData = flattened[j].meshData =>
                  /\ flattened[i].material = flattened[j].material
                  /\ flattened[i].textureFilename = flattened[j].textureFilename
                  /\ NoFileTwice(scene) => flattened[i].xform = flattened[j].xform
            BY <1>2, <1>4 DEF ListAlike
          <5>2. flattened[k].meshData = flattened[n + 1].meshData
            BY <1>5, <1>7, <1>16, <3>4
          <5> QED BY <1>5, <2>1, <5>1, <5>2
        <4> QED BY <1>12, <1>13, <1>14, <3>1, <3>2, <3>4, <4>1
      <3> QED BY <3>3, <3>4
    <2> QED BY <2>1, <2>2, <2>3
  <1>17. ASSUME NEW m \in DOMAIN meshdata_optixmesh_map'
         PROVE  \E k \in 1..(n + 1) : m = flattened[k].meshData
    <2>1. n + 1 \in 1..(n + 1) /\ 1..n \subseteq 1..(n + 1)
      OBVIOUS
    <2>2. CASE m = mesh
      BY <1>5, <1>7, <2>1, <2>2
    <2>3. CASE m # mesh
      <3>1. PICK k \in 1..n : m = flattened[k].meshData
        BY <1>3, <1>12, <2>3 DEF SetupInv, Instances
      <3> QED BY <2>1, <3>1
    <2> QED BY <2>2, <2>3
  <1>18. Instances' = 1..(n + 1) /\ Len(topLevelGroup') <= Len(flattened')
    BY <1>4, <1>10, <1>15 DEF Instances
  <1> QED BY <1>10, <1>15, <1>16, <1>17, <1>18 DEF SetupInv

SceneInv == IInv /\ LoadInv /\ SetupInv

(* while load runs the loop has not begun *)
LEMMA LoadStepSetup ==
  ASSUME SceneInv, LoadStep
  PROVE  SetupInv'
  <1>1. IInv /\ SetupInv /\ Next /\ UNCHANGED initVars
    BY DEF SceneInv, LoadStep
  <1>2. status # "done"
    <2> SUFFICES ASSUME status = "done" PROVE FALSE
      OBVIOUS
    <2>1. CASE Load \/ ParseDone \/ Flatten \/ LoadReturn \/ IncludeReturn
      BY <2>1 DEF Load, ParseDone, Flatten, LoadReturn, IncludeReturn
    <2>2. CASE StaticXform \/ AnimatedXform \/ EndStatic \/ EndAnimated \/ EndUnmatched \/ Include
      BY <2>2 DEF StaticXform, AnimatedXform, EndStatic, EndAnimated, EndUnmatched, Include,
                  AtInclude, At
    <2>3. CASE ParseDetailLevel \/ ParseFill \/ ParseMesh \/ ParseSphereOrCone \/ ParsePoly
                 \/ ParseTexturedTriangle \/ ParseOther \/ ParseError
      BY <2>3 DEF ParseDetailLevel, ParseFill, ParseMesh, ParseSphereOrCone, ParsePoly,
                  ParseTexturedTriangle, ParseOther, ParseError, At
    <2> QED BY <1>1, <2>1, <2>2, <2>3 DEF Next
  <1>3. topLevelGroup' = << >> /\ meshdata_optixmesh_map' = << >>
    BY <1>1, <1>2 DEF SetupInv, initVars
  <1>4. Len(flattened') \in Nat
    <2>1. IInv'
      BY <1>1, NextIInv
    <2> QED BY <2>1, LenProperties DEF IInv, TypeOK, WalkTypeOK
  <1>5. topLevelGroup' \in Seq(Group) /\ Len(topLevelGroup') = 0 /\ Instances' = {}
        /\ DOMAIN meshdata_optixmesh_map' = {}
    BY <1>3, EmptySeq DEF Instances
  <1> QED BY <1>3, <1>4, <1>5 DEF SetupInv

LEMMA InitSceneInv == InitS => SceneInv
  <1> SUFFICES ASSUME InitS PROVE SceneInv
    OBVIOUS
  <1>1. IInv
    BY InitIInv DEF InitS
  <1>2. LoadInv
    BY DEF InitS, Init, LoadInv
  <1>3. topLevelGroup \in Seq(Group) /\ Len(topLevelGroup) = 0 /\ Instances = {}
        /\ DOMAIN meshdata_optixmesh_map = {} /\ Len(flattened) = 0
    BY EmptySeq DEF InitS, Init, Instances
  <1>4. SetupInv
    BY <1>3 DEF InitS, SetupInv
  <1> QED BY <1>1, <1>2, <1>4 DEF SceneInv

LEMMA NextSceneInv == SceneInv /\ [NextS]_allVars => SceneInv'
  <1> SUFFICES ASSUME SceneInv, [NextS]_allVars
               PROVE  SceneInv'
    OBVIOUS
  <1>1. IInv /\ LoadInv /\ SetupInv
    BY DEF SceneInv
  <1>2. [Next]_vars
    BY DEF NextS, LoadStep, LoadFailed, InitSceneStep, AddBartNode, NullMaterial, Validate, allVars
  <1>3. IInv' /\ LoadInv'
    BY <1>1, <1>2, NextIInv, LoadInvStep
  <1>4. SetupInv'
    <2>1. CASE LoadStep
      BY <2>1, LoadStepSetup
    <2>2. CASE AddBartNode
      BY <1>1, <2>2, AddBartNodeStep
    <2>3. CASE UNCHANGED <<vars, initVars>>
      BY <1>1, <2>3 DEF vars, walkVars, initVars, SetupInv, Instances
    <2> QED BY <2>1, <2>2, <2>3
            DEF NextS, LoadFailed, InitSceneStep, NullMaterial, Validate, allVars
  <1> QED BY <1>3, <1>4 DEF SceneInv

(* The inductive invariant of load and the set-up after it: every mesh was *)
(* read into one node, entries of the list with one mesh are alike, and    *)
(* the instances and GL meshes made so far are as the list has them.       *)
THEOREM SceneInvariant == SpecS => []SceneInv
  BY InitSceneInv, NextSceneInv, PTL DEF SpecS

(* The GL mesh of a MeshData is one for all its instances, and set up for  *)
(* each of them in turn; it has the material and texture of them all.      *)
THEOREM SharedMeshesLookAlike == SpecS => []SharedMeshLooksAlike
  <1>1. SceneInv => SharedMeshLooksAlike
    BY DEF SceneInv, SetupInv, SharedMeshLooksAlike, GLMesh
  <1> QED BY <1>1, SceneInvariant, PTL

(* In a scene that includes no file twice it has the transform, too.       *)
THEOREM SingleUseIsInSync == SpecS => []SingleUseInSync
  <1>1. SceneInv => SingleUseInSync
    BY DEF SceneInv, SetupInv, SingleUseInSync, GLMesh
  <1> QED BY <1>1, SceneInvariant, PTL

-----------------------------------------------------------------------------
(* initScene implements TracedScene                                        *)

(* the instances so far, as they are traced, are the list's first ones *)
AsListed ==
  /\ Len(topLevelGroup) \in Nat /\ Len(flattened) \in Nat
  /\ Len(topLevelGroup) <= Len(flattened)
  /\ [k \in Instances |-> Seen(k)] = [k \in 1..Len(topLevelGroup) |-> flattened[k]]

LEMMA SeenAsListed == SceneInv => AsListed
  <1> SUFFICES ASSUME SceneInv PROVE AsListed
    OBVIOUS
  <1>1. /\ Len(topLevelGroup) \in Nat /\ Instances = 1..Len(topLevelGroup)
        /\ Len(topLevelGroup) <= Len(flattened)
    BY LenProperties DEF SceneInv, SetupInv, Instances
  <1>2. Len(flattened) \in Nat
    BY LenProperties DEF SceneInv, IInv, TypeOK, WalkTypeOK
  <1>3. ASSUME NEW k \in Instances
        PROVE  Seen(k) = flattened[k]
    <2>1. PICK S : S = [meshData : Mesh, material : Material \cup {None},
                        textureFilename : Texture \cup {None}, xform : Matrix]
      OBVIOUS
    <2>2. flattened \in Seq(S)
      BY <2>1 DEF SceneInv, IInv, TypeOK, WalkTypeOK
    <2>3. flattened[k] \in S
      BY <1>1, <1>2, <2>2, ElementOfSeq
    <2>4. PICK node : node = flattened[k]
      OBVIOUS
    <2>5. node = [meshData |-> node.meshData, material |-> node.material,
                  textureFilename |-> node.textureFilename, xform |-> node.xform]
      BY <2>1, <2>3, <2>4
    <2>6. /\ topLevelGroup[k].geometry = node.meshData
          /\ topLevelGroup[k].material = node.material
          /\ topLevelGroup[k].transform = node.xform
          /\ meshdata_optixmesh_map[node.meshData].texture = node.textureFilename
      BY <2>4 DEF SceneInv, SetupInv
    <2> QED BY <2>4, <2>5, <2>6 DEF Seen, GLMesh
  <1> QED BY <1>1, <1>2, <1>3 DEF AsListed

LEMMA FirstOfList ==
  ASSUME NEW S, NEW list \in Seq(S), NEW n \in Nat, n < Len(list)
  PROVE  [k \in 1..(n + 1) |-> list[k]] = Append([k \in 1..n |-> list[k]], list[n + 1])
  <1> DEFINE front == [k \in 1..n |-> list[k]]
             more == [k \in 1..(n + 1) |-> list[k]]
             next == list[n + 1]
  <1>1. Len(list) \in Nat /\ \A k \in 1..Len(list) : list[k] \in S
    BY LenProperties, ElementOfSeq
  <1>2. front \in Seq(S) /\ Len(front) = n /\ \A k \in 1..n : front[k] = list[k]
    BY <1>1, IsASeq, LenProperties
  <1>3. more \in Seq(S) /\ Len(more) = n + 1 /\ \A k \in 1..(n + 1) : more[k] = list[k]
    BY <1>1, IsASeq, LenProperties
  <1>4. next \in S
    BY <1>1
  <1> HIDE DEF front, more, next
  <1>5. /\ Append(front, next) \in Seq(S) /\ Len(Append(front, next)) = n + 1
        /\ \A k \in 1..n : Append(front, next)[k] = front[k]
        /\ Append(front, next)[n + 1] = next
    BY <1>2, <1>4, AppendProperties
  <1>6. \A k \in 1..(n + 1) : more[k] = Append(front, next)[k]
    BY <1>2, <1>3, <1>5 DEF next
  <1> QED
    BY <1>3, <1>5, <1>6, SeqEqual DEF front, more, next

(* the list grows while load runs, and load alone makes it *)
LEMMA LoadDelivers ==
  ASSUME IInv, Next
  PROVE  /\ status # "done"
         /\ \/ flattened' = flattened
            \/ /\ status = "flatten" /\ status' # "done"
               /\ \E inst : flattened' = Append(flattened, inst)
  <1>1. CASE Flatten
    BY <1>1 DEF Flatten, walkVars
  <1>2. CASE Load \/ ParseDone \/ LoadReturn \/ IncludeReturn
    BY <1>2 DEF Load, ParseDone, LoadReturn, IncludeReturn, walkVars
  <1>3. CASE StaticXform \/ AnimatedXform \/ EndStatic \/ EndAnimated \/ EndUnmatched
    BY <1>3 DEF StaticXform, AnimatedXform, EndStatic, EndAnimated, EndUnmatched, At, walkVars
  <1>4. CASE Include
    BY <1>4 DEF Include, IncludeSeen, IncludeNew, IncludeSkip, AtInclude, At, walkVars
  <1>5. CASE ParseDetailLevel \/ ParseFill \/ ParseMesh \/ ParseSphereOrCone \/ ParsePoly
               \/ ParseTexturedTriangle \/ ParseOther \/ ParseError
    BY <1>5 DEF ParseDetailLevel, ParseFill, ParseMesh, ParseSphereOrCone, ParsePoly,
                ParseTexturedTriangle, ParseOther, ParseError, At, walkVars
  <1> QED BY <1>1, <1>2, <1>3, <1>4, <1>5 DEF Next

LEMMA StepDelivers ==
  ASSUME SceneInv, AsListed, AsListed', [NextS]_allVars
  PROVE  [Delivery!DNext]_(Delivery!dvars)
  <1> DEFINE traced == [k \in Instances |-> Seen(k)]
             loaded == status = "done"
             ready == setup = "ready"
             n == Len(topLevelGroup)
  <1>1. IInv
    BY DEF SceneInv
  <1>2. PICK S : flattened \in Seq(S)
    BY <1>1 DEF IInv, TypeOK, WalkTypeOK
  <1>3. /\ traced = [k \in 1..n |-> flattened[k]] /\ n \in Nat
        /\ n <= Len(flattened) /\ Len(flattened) \in Nat
        /\ traced \in Seq(S) /\ Len(traced) = n
    <2>1. /\ traced = [k \in 1..n |-> flattened[k]] /\ n \in Nat
          /\ n <= Len(flattened) /\ Len(flattened) \in Nat
      BY DEF AsListed
    <2>2. \A k \in 1..n : flattened[k] \in S
      <3>1. \A k \in 1..Len(flattened) : flattened[k] \in S
        BY <1>2, ElementOfSeq
      <3> QED BY <2>1, <3>1
    <2>3. /\ [k \in 1..n |-> flattened[k]] \in Seq(S)
          /\ Len([k \in 1..n |-> flattened[k]]) = n
      BY <2>1, <2>2, IsASeq, LenProperties
    <2> QED BY <2>1, <2>3
  <1>4. CASE LoadStep
    <2>1. Next /\ setup' = setup /\ UNCHANGED initVars
      BY <1>4 DEF LoadStep
    <2>2. traced' = traced /\ ready' = ready
      BY <2>1 DEF initVars, Instances, Seen, GLMesh
    <2>3. CASE flattened' = flattened /\ loaded' = loaded
      BY <2>2, <2>3 DEF Delivery!dvars
    <2>4. CASE flattened' = flattened /\ loaded' # loaded
      <3>1. ~loaded /\ loaded'
        BY <1>1, <2>1, <2>4, LoadDelivers
      <3>2. Delivery!Return
        BY <2>2, <2>4, <3>1 DEF Delivery!Return
      <3> QED BY <3>2 DEF Delivery!DNext
    <2>5. CASE flattened' # flattened
      <3>1. ~loaded /\ ~loaded' /\ \E inst : flattened' = Append(flattened, inst)
        BY <1>1, <2>1, <2>5, LoadDelivers
      <3>2. PICK inst : flattened' = Append(flattened, inst)
        BY <3>1
      <3>3. /\ Len(flattened') = Len(flattened) + 1
            /\ \A k \in 1..Len(flattened) : flattened'[k] = flattened[k]
        BY <1>2, <3>2
      <3>4. Delivery!Deliver
        BY <2>2, <3>1, <3>3 DEF Delivery!Deliver
      <3> QED BY <3>4 DEF Delivery!DNext
    <2> QED BY <2>3, <2>4, <2>5
  <1>5. CASE AddBartNode
    <2>1. /\ loaded /\ ~ready /\ flattened' = flattened /\ status' = status /\ setup' = setup
          /\ n < Len(flattened)
          /\ topLevelGroup' = Append(topLevelGroup, Instance(BartNode))
      BY <1>5 DEF AddBartNode, Looping, MoreNodes, vars, walkVars
    <2>2. n' = n + 1
      <3>1. topLevelGroup \in Seq(Group)
        BY DEF SceneInv, SetupInv
      <3> QED BY <2>1, <3>1
    <2>3. traced' = [k \in 1..(n + 1) |-> flattened[k]]
      BY <2>1, <2>2 DEF AsListed
    <2>4. traced' = Append(traced, flattened[n + 1])
      BY <1>2, <1>3, <2>1, <2>3, FirstOfList
    <2>5. Delivery!Trace
      BY <1>3, <2>1, <2>4 DEF Delivery!Trace
    <2> QED BY <2>5 DEF Delivery!DNext
  <1>6. CASE Validate
    <2>1. /\ loaded /\ ~ready /\ flattened' = flattened /\ status' = status
          /\ ~(n < Len(flattened)) /\ UNCHANGED initVars
      BY <1>6 DEF Validate, Looping, MoreNodes, vars, walkVars
    <2>2. traced' = traced
      BY <2>1 DEF initVars, Instances, Seen, GLMesh
    <2>3. traced = flattened
      <3>1. n = Len(flattened)
        BY <1>3, <2>1
      <3>2. \A k \in 1..n : traced[k] = flattened[k]
        BY <1>3
      <3> QED BY <1>2, <1>3, <3>1, <3>2, SeqEqual
    <2>4. CASE ready'
      <3>1. Delivery!Finish
        BY <2>1, <2>2, <2>3, <2>4 DEF Delivery!Finish
      <3> QED BY <3>1 DEF Delivery!DNext
    <2>5. CASE ~ready'
      BY <2>1, <2>2, <2>5 DEF Delivery!dvars
    <2> QED BY <2>4, <2>5
  <1>7. CASE LoadFailed \/ NullMaterial \/ UNCHANGED allVars
    <2>1. UNCHANGED <<vars, initVars>> /\ ready' = ready
      BY <1>7 DEF LoadFailed, NullMaterial, Looping, allVars
    <2> QED BY <2>1 DEF vars, walkVars, initVars, Instances, Seen, GLMesh, Delivery!dvars
  <1> QED BY <1>4, <1>5, <1>6, <1>7 DEF NextS, InitSceneStep

LEMMA InitDelivers == InitS => Delivery!DInit
  <1> SUFFICES ASSUME InitS PROVE Delivery!DInit
    OBVIOUS
  <1>1. Instances = {}
    BY DEF InitS, Instances
  <1>2. [k \in Instances |-> Seen(k)] = << >>
    BY <1>1
  <1> QED BY <1>2 DEF InitS, Init, Delivery!DInit

(* For any files, initScene implements TracedScene: no step of the set-up  *)
(* disturbs an instance set up before, and none is missing at its end.     *)
THEOREM SetUpImplements == SpecS => TracesDelivered
  <1>1. InitS => Delivery!DInit
    BY InitDelivers
  <1>2. SceneInv => AsListed
    BY SeenAsListed
  <1>3. SceneInv /\ AsListed /\ AsListed' /\ [NextS]_allVars => [Delivery!DNext]_(Delivery!dvars)
    BY StepDelivers
  <1> QED BY <1>1, <1>2, <1>3, SceneInvariant, PTL
          DEF SpecS, TracesDelivered, Delivery!DSpec
=============================================================================
