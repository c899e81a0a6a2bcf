------------------------------ MODULE SceneText ------------------------------
(***************************************************************************)
(* What loading a scene promises, told without nodes, caches or stacks:    *)
(* a file included is its text read in place.  Reading the text gives the  *)
(* mesh instances of the scene; the loader may deliver them in any order,  *)
(* and returns when it has delivered them all.                             *)
(*                                                                         *)
(* It follows the format as the comments of the parsers state it: an       *)
(* object is transformed by everything open around it (ParseXform), is     *)
(* coloured by the last fill (ParseFill) and is left out when its file's   *)
(* detail level is above the scene's (ParseDetailLevel).                   *)
(***************************************************************************)
EXTENDS Integers, Sequences, SequencesExt, BagsExt

CONSTANTS
  Main, None,
  Promises(_)   \* the scenes for which loading keeps the promise

VARIABLES
  scene,      \* the files on disk
  returned,   \* load() has returned its result
  delivered   \* bag of the instances in the result so far

tvars == <<scene, returned, delivered>>

(* What is known while reading: the matrix of every open transform, the    *)
(* last fill, the detail level, and the instances read so far.             *)
Start == [open |-> << << >> >>, mat |-> None, level |-> 0, found |-> << >>]

RECURSIVE Read(_, _, _)
ReadToken(s, at, tok) ==
  CASE tok.op = "xs" -> [at EXCEPT !.open = Append(@, Append(Last(@), tok.xf))]
    [] tok.op = "x"  -> [at EXCEPT !.open = Append(@, Last(@))]
    [] tok.op = "}"  -> [at EXCEPT !.open = Front(@)]
    [] tok.op = "f"  -> [at EXCEPT !.mat = tok.mat]
    [] tok.op = "d"  -> [at EXCEPT !.level = tok.detail]
    [] tok.op = "i"  -> IF tok.detail <= at.level THEN Read(s, tok.file, at) ELSE at
    [] tok.op = "m"  ->
         [at EXCEPT !.found = Append(@, [meshData |-> tok.mesh, material |-> at.mat,
                                         textureFilename |-> tok.tex,
                                         xform |-> Last(at.open)])]
    [] OTHER -> at
Read(s, file, at) ==
  FoldLeft(LAMBDA before, tok : ReadToken(s, before, tok), at, s[file])

Promised == ToBag(Read(scene, Main, Start).found)

TInit == ~returned /\ delivered = EmptyBag

Deliver ==
  /\ ~returned
  /\ Promises(scene) =>
       /\ \E inst \in BagToSet(Promised) : delivered' = BagAdd(delivered, inst)
       /\ delivered' \sqsubseteq Promised
  /\ UNCHANGED <<scene, returned>>

Return ==
  /\ ~returned /\ (Promises(scene) => delivered = Promised)
  /\ returned' = TRUE
  /\ UNCHANGED <<scene, delivered>>

TNext == Deliver \/ Return

(* A safety specification: when load() comes back says BartLoader!LoadReturns *)
TSpec == TInit /\ [][TNext]_tvars

==============================================================================
