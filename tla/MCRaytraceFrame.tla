-------------------------- MODULE MCRaytraceFrame --------------------------
(***************************************************************************)
(* Two pixels side by side.  The window also gets smaller, with another    *)
(* aspect, higher, with another, and larger in both with the same.  The    *)
(* camera goes one step and turns round, from one view to another and back.*)
(***************************************************************************)
EXTENDS RaytraceFrame

MCInitSize == <<2, 1>>
MCWindowSizes == {MCInitSize, <<1, 1>>, <<2, 2>>, <<4, 2>>}
MCKeys == {<<0, 1>>}
MCRoom == {<<0, 0>>, <<0, -1>>}
MCTurns == {2}
=============================================================================
