---------------------------- MODULE MCBartLoader ----------------------------
(***************************************************************************)
(* Small scenes for BartLoader: every text over a few tokens, up to a      *)
(* length, so that unbalanced, cyclic and malformed files are among them.  *)
(***************************************************************************)
EXTENDS BartLoader, TLC

CONSTANTS MainLength, IncludedLength, MixedLength  \* bounds on the texts

MCTransform == {"t1", "t2"}
MCXformName == {"toycar"}
MCFileName == {"main", "a", "gone"}
MCMesh == {"m1"}
MCMaterial == {"k1"}
MCTexture == {"wood", "tiles"}
MCDetail == {-1, 0, 1}

Texts(tokens, length) == UNION {[1..n -> tokens] : n \in 0..length}

xs(t)   == [op |-> "xs", xf |-> t]
x       == [op |-> "x", name |-> "toycar"]
end     == [op |-> "}"]
i(f, d) == [op |-> "i", file |-> f, detail |-> d]
m(tex)  == [op |-> "m", mesh |-> "m1", tex |-> tex]
f       == [op |-> "f", mat |-> "k1"]

(* Braces, includes and meshes in any order.  "a" may include itself, be   *)
(* included inside or outside a transform, and leave braces open.          *)
ShapeScenes ==
  {("main" :> main @@ "a" :> a) :
     main \in Texts({xs("t1"), x, end, i("a", 0), m(None)}, MainLength),
     a \in Texts({xs("t2"), end, i("a", 0), m(None)}, IncludedLength)}

(* every kind of token, with "a" a file of one mesh in a transform *)
MixedTokens ==
  {xs("t1"), end, i("a", 0), i("a", -1), i("gone", 1), [op |-> "i?"], f, m("wood"),
   [op |-> "d", detail |-> 1], [op |-> "d", detail |-> -1],
   [op |-> "s"], [op |-> "other"], [op |-> "bad"],
   [op |-> "tt", tex |-> "wood"], [op |-> "tt", tex |-> "tiles"]}
    \cup [op : {"p"}, patch : BOOLEAN, nverts : {3, 4, 5}]

MixedScenes ==
  {("main" :> main @@ "a" :> <<xs("t2"), m(None), end>>) :
     main \in Texts(MixedTokens, MixedLength)}
    \cup {"a" :> << >>}   \* the main file is missing

AllScenes == ShapeScenes \cup MixedScenes
=============================================================================
