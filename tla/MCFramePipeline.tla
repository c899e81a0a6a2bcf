-------------------------- MODULE MCFramePipeline --------------------------
(***************************************************************************)
(* Small scenes for FramePipeline: the spacejet, then up to three of the   *)
(* nodes initScene makes, in any order.                                    *)
(***************************************************************************)
EXTENDS FramePipeline

CONSTANT JetMaterial   \* the spacejet's material

MCTexture == {"ferox", "bumps", "cube"}
MCMaterial == {"basic_cube", "red_cube", "kitchen"}

(* MaterialLoader numbers its materials, ParseFill::addMaterial does not *)
MCId == [m \in MCMaterial |-> IF m = "red_cube" THEN 1 ELSE 0]
MCRegistered == <<"basic_cube", "red_cube">>
MCSize == {"640x480", "800x600"}

slot(t, p, s) == [tex |-> t, program |-> p, sampler |-> s]
jet  == [kind |-> "spacejet", material |-> JetMaterial,
         textures |-> [u \in {0, 1} |-> IF u = 0 THEN slot("ferox", "spacejet", "diffuse_tex")
                                                 ELSE slot("bumps", "spacejet", "normal_tex")]]
cube == [kind |-> "mesh", material |-> "basic_cube",
         textures |-> [u \in {0} |-> slot("cube", "deferred", "diffuse_tex")]]
red  == [cube EXCEPT !.material = "red_cube"]
bart  == [kind |-> "mesh", material |-> "kitchen", textures |-> << >>]
plain == [kind |-> "mesh", material |-> None, textures |-> << >>]
optix == [kind |-> "optix", material |-> "kitchen", textures |-> << >>]

Others == {cube, red, plain, optix, bart, jet}
MCSceneLists == {<<jet>> \o s : s \in UNION {[1..n -> Others] : n \in 0..3}}
=============================================================================
