---------------------------- MODULE MCMeshUpload ----------------------------
(***************************************************************************)
(* Instances of MeshUpload for TLC.  A model is a triangle; a model file's *)
(* may have any optional streams (Assimp makes tangents and bitangents     *)
(* together), one of BART's normals and texture coordinates only.          *)
(***************************************************************************)
EXTENDS MeshUpload

Triangle(has, traced) == [n |-> 3, has |-> has, indices |-> <<0, 1, 2>>, traced |-> traced]

AssimpModels ==
  {Triangle(has, FALSE) :
     has \in {h \in SUBSET (Streams \ {"vertices"}) : "tangents" \in h <=> "bitangents" \in h}}
BartModels == {Triangle(has, TRUE) : has \in SUBSET {"normals", "texcoords"}}

MCModels == AssimpModels \cup BartModels
MCCellCounts == {2, 3, 4}
=============================================================================
