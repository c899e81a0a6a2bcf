---------------------------- MODULE MCKeyframes ----------------------------
(***************************************************************************)
(* Tracks for Keyframes: five keys in any order of time, five keys at      *)
(* increasing and uneven times, five rotations, and too few keys.          *)
(***************************************************************************)
EXTENDS Keyframes

CONSTANTS
  LastTime,   \* times of keys in any order are in 0..LastTime
  Tensions, Continuities, Biases

Position(t, p, tcb) ==
  [t |-> t, p |-> p, tension |-> tcb[1], continuity |-> tcb[2], bias |-> tcb[3]]

Plain == <<0, 0, 0>>
At(k) == <<3, 1, -2, 5, 2>>[k]   \* where the keys are

AnyOrder ==
  {[k \in 1..5 |-> Position(<<0, t[1], t[2], t[3], 1>>[k], At(k), Plain)] :
     t \in (0..LastTime) \X (0..LastTime) \X {0, LastTime}}
Uneven ==
  {[k \in 1..5 |-> Position(<<0, 1, 3, 4, 7>>[k], At(k), tcb)] :
     tcb \in Tensions \X Continuities \X Biases}
TooShort == [k \in 1..3 |-> Position(k, At(k), Plain)]

MCNames == {"camera", "door"}
MCPositionTracks == AnyOrder \cup Uneven \cup {TooShort}
MCRotationTracks ==
  {[k \in 1..5 |-> [t |-> k, h |-> <<0, h[1], h[2], h[1], 0>>[k]]] :
     h \in [1..2 -> 0..(4*Q - 1)]}
MCVisibilityTracks ==
  {<< >>, <<[t |-> 1, visible |-> FALSE], [t |-> 3, visible |-> TRUE]>>}
MCTimes == -1..4
=============================================================================
