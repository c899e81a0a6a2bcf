----------------------------- MODULE SceneRules -----------------------------
(***************************************************************************)
(* What a scene has to keep to for BARTLoader2 to load what its text says: *)
(* the loader shares the subtree of a file among its includes and keeps    *)
(* one mesh and one material per node.                                     *)
(***************************************************************************)
EXTENDS Integers, Sequences, FiniteSets

CONSTANT Main


Ops(text, op) == {i \in DOMAIN text : text[i].op = op}

(* the includes of a file, over all files *)
Uses(s, file) ==
  UNION {{<<f, i>> : i \in {j \in Ops(s[f], "i") : s[f][j].file = file}} : f \in DOMAIN s}

SingleUse(s) == \A file \in DOMAIN s : Cardinality(Uses(s, file)) <= 1

(* every mesh takes its material from a fill of its own file, with no      *)
(* include between the two                                                 *)
SelfColoured(s) ==
  \A f \in DOMAIN s : \A m \in Ops(s[f], "m") :
    \E k \in Ops(s[f], "f") : k < m /\ \A i \in Ops(s[f], "i") : ~(i \in k..m)

(* a file has one detail level, and the scene's never decreases *)
DetailStable(s) ==
  /\ \A f \in DOMAIN s \ {Main} : Ops(s[f], "d") = {}
  /\ \A d, e \in Ops(s[Main], "d") : d < e => s[Main][d].detail <= s[Main][e].detail
  /\ \A d \in Ops(s[Main], "d") : s[Main][d].detail >= 0
  /\ \A file \in DOMAIN s : \A u, v \in Uses(s, file) :
       s[u[1]][u[2]].detail = s[v[1]][v[2]].detail

(* a transform, or an included file outside its transforms, holds at most  *)
(* one mesh, and the main file none outside its transforms                 *)
Level(text, i) ==
  Cardinality({j \in 1..(i - 1) : text[j].op \in {"xs", "x"}})
    - Cardinality({j \in 1..(i - 1) : text[j].op = "}"})

SameScope(text, i, j) ==
  i < j /\ Level(text, i) = Level(text, j)
        /\ \A k \in i..j : Level(text, k) >= Level(text, i)

OneMeshPerScope(s) ==
  /\ \A f \in DOMAIN s : \A i, j \in Ops(s[f], "m") : ~SameScope(s[f], i, j)
  /\ \A i \in Ops(s[Main], "m") : Level(s[Main], i) > 0

Loadable(s) ==
  OneMeshPerScope(s) /\ (SingleUse(s) \/ (SelfColoured(s) /\ DetailStable(s)))
=============================================================================
