---------------------------- MODULE MCInitScene ----------------------------
(***************************************************************************)
(* Small scenes for InitScene, and what the loader delivers, compared with *)
(* the text of the scene.                                                  *)
(***************************************************************************)
EXTENDS InitScene, SequencesExt, TLC

CONSTANT MainLength   \* bound on the text of the main file

Rules == INSTANCE SceneRules

MCTransform == {"t1", "t2"}
MCXformName == {"toycar"}
MCFileName == {"main", "a", "b"}
MCMesh == {"m1", "m2", "m3"}
MCMaterial == {"k1", "k2", "k3"}
MCTexture == {"wood", "steel"}
MCDetail == {0, 1}

Texts(tokens, length) == UNION {[1..n -> tokens] : n \in 0..length}

xs(t)     == [op |-> "xs", xf |-> t]
x         == [op |-> "x", name |-> "toycar"]
end       == [op |-> "}"]
i(f)      == [op |-> "i", file |-> f, detail |-> 0]
far(f)    == [op |-> "i", file |-> f, detail |-> 1]
d(n)      == [op |-> "d", detail |-> n]
m(mesh,t) == [op |-> "m", mesh |-> mesh, tex |-> t]
f(mat)    == [op |-> "f", mat |-> mat]

MainTexts == Texts({xs("t1"), end, i("a"), i("b"), m("m1", "wood"), f("k1")}, MainLength)
ATexts ==
  {<<f("k2"), m("m2", None)>>,
   <<m("m2", "wood")>>,
   <<xs("t2"), f("k2"), m("m2", "wood"), end, i("b")>>,
   <<f("k2"), xs("t2"), i("b"), end>>}
BTexts ==
  {<<m("m3", "wood")>>,
   <<f("k3"), m("m3", "wood")>>,
   <<f("k3"), m("m3", "steel")>>}

SmallScenes ==
  {s \in {("main" :> main @@ "a" :> a @@ "b" :> b) :
            main \in MainTexts, a \in ATexts, b \in BTexts} : DistinctMeshes(s)}

(* More kinds of token and more included files, but only Loadable scenes   *)
RichTexts ==
  Texts({xs("t1"), x, end, far("a"), i("b"), m("m1", "wood"), f("k1"), d(1)}, MainLength)
LoadableScenes ==
  {s \in {("main" :> main @@ "a" :> a @@ "b" :> b) :
            main \in {t \in RichTexts : Balanced("main" :> t)},
            a \in ATexts \cup {<<f("k2")>>, <<xs("t2"), i("b"), end, i("b")>>},
            b \in BTexts \cup {<<f("k3"), xs("t1"), m("m3", None), end>>}} :
     DistinctMeshes(s) /\ Balanced(s) /\ Rules!Loadable(s)}

AllScenes == SmallScenes \cup LoadableScenes

Promises(s) == s \in LoadableScenes

Text == INSTANCE SceneText WITH
          returned <- status = "done",
          delivered <- ToBag(flattened)

(* Loading a scene delivers exactly the instances of its text read in      *)
(* place, each with the product of the transforms around it, its own fill  *)
(* and its texture, and returns once all of them are there.                *)
DeliversSceneText == Text!TSpec
=============================================================================
