----------------------------- MODULE TracedScene -----------------------------
(***************************************************************************)
(* What setting up a scene promises, told without GL meshes, maps and      *)
(* groups: load() makes a list of mesh instances; then the instances of    *)
(* the list are added to what is traced, one after the other and each as   *)
(* it is in the list; and initScene returns when the two are the same.     *)
(***************************************************************************)
EXTENDS Naturals, Sequences

VARIABLES
  list,    \* the instances load() has put into its result so far
  loaded,  \* load() has returned
  traced,  \* the instances OptiX knows, as they look when traced
  ready    \* initScene has returned

dvars == <<list, loaded, traced, ready>>

DInit == list = << >> /\ ~loaded /\ traced = << >> /\ ~ready

Deliver ==
  /\ ~loaded
  /\ Len(list') = Len(list) + 1
  /\ \A k \in 1..Len(list) : list'[k] = list[k]
  /\ UNCHANGED <<loaded, traced, ready>>

Return ==
  /\ ~loaded /\ loaded' = TRUE
  /\ UNCHANGED <<list, traced, ready>>

(* no instance traced before changes *)
Trace ==
  /\ loaded /\ ~ready
  /\ Len(traced) < Len(list)
  /\ traced' = Append(traced, list[Len(traced) + 1])
  /\ UNCHANGED <<list, loaded, ready>>

Finish ==
  /\ loaded /\ ~ready /\ traced = list
  /\ ready' = TRUE
  /\ UNCHANGED <<list, loaded, traced>>

DNext == Deliver \/ Return \/ Trace \/ Finish

DSpec == DInit /\ [][DNext]_dvars
==============================================================================
