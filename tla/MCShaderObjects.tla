-------------------------- MODULE MCShaderObjects --------------------------
(***************************************************************************)
(* A small instance of ShaderObjects: texts with no uniform, with the id   *)
(* behind another uniform, with two entries of material data, with all of  *)
(* them, and one that does not compile.                                    *)
(***************************************************************************)
EXTENDS ShaderObjects

MCSource == {"vs", "gs", "id_fs", "data_fs", "both_fs", "broken"}
MCBroken == {"broken"}
MCEmpty == "empty"
MCMissing == "missing"
MCDeclared == [s \in MCSource |->
  CASE s = "id_fs" -> <<<<"diffuse_tex", 0>>, MaterialId>>
    [] s = "data_fs" -> <<MaterialData(0), MaterialData(1)>>
    [] s = "both_fs" -> <<MaterialId, MaterialData(1), MaterialData(0)>>
    [] OTHER -> << >>]
MCLoads == {
  <<"vs", "empty", "id_fs">>, <<"vs", "empty", "data_fs">>, <<"empty", "gs", "both_fs">>,
  <<"broken", "gs", "id_fs">>, <<"vs", "empty", "broken">>, <<"vs", "missing", "id_fs">>}
MCValues == {"red", "blue"}
=============================================================================
