----------------------------- MODULE BartFormat -----------------------------
(***************************************************************************)
(* What a comment of the loader says about the .aff format, stated of      *)
(* BartLoader's steps.  The loader does otherwise: the property is refuted *)
(* by a run.  The scenes are all texts of the main file over a few tokens; *)
(* "a" is a parameter file, one fill, as the kitchen scene's               *)
(* param_door.aff is.                                                      *)
(***************************************************************************)
EXTENDS BartLoader, FiniteSetsExt, TLC

CONSTANT MainLength   \* bound on the text of the main file

BFTransform == {"t1"}
BFXformName == {"toycar"}
BFFileName == {"main", "a"}
BFMesh == {"m1"}
BFMaterial == {"k1", "k2"}
BFTexture == {"wood"}
BFDetail == {0, 1}

MainTokens ==
  [op : {"xs"}, xf : Transform]
    \cup [op : {"i"}, file : {"a"}, detail : Detail]
    \cup [op : {"m"}, mesh : Mesh, tex : {None}]
    \cup {[op |-> "}"], [op |-> "f", mat |-> "k1"]}

FormatScenes ==
  {("main" :> main @@ "a" :> <<[op |-> "f", mat |-> "k2"]>>) :
     main \in UNION {[1..n -> MainTokens] : n \in 0..MainLength}}

Positions(text, op) == {i \in DOMAIN text : text[i].op = op}
LastFill(text) == text[Max(Positions(text, "f"))].mat

(* Including a file again loads "the state of a node associated with       *)
(* material state from that file" (BARTLoader2.cpp, above                  *)
(* setMaterialState_r): its last fill colours the objects that follow.     *)
IncludeRestoresMaterial ==
  [][At("i") /\ Tok.file \in DOMAIN includefileToNodeMap /\ status' = "parse"
       /\ Positions(scene[Tok.file], "f") # {}
     => extMaterial' = LastFill(scene[Tok.file])]_vars
=============================================================================
