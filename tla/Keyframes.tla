----------------------------- MODULE Keyframes -----------------------------
(***************************************************************************)
(* Key frame animation: ParseKeyFrames reads the "k" blocks of a file into *)
(* the list mAnimations, KB_PosInitialize and KB_RotInitialize make the    *)
(* splines, and the Get functions of animation.h find a name in the list   *)
(* and the polynomial of a time.  Nothing in the program asks for an       *)
(* animation yet; whoever includes animation.h may, at any time and in any *)
(* order.                                                                  *)
(*                                                                         *)
(* A position is one coordinate and an integer, times are integers, and    *)
(* polynomials carry their common denominator, so that no rounding is      *)
(* modelled.  Rotations are those about one axis: the quaternion of half   *)
(* the angle, counted in units of which Q make a right angle, modulo 4Q.   *)
(* The tension, continuity and bias of rotation keys are 0.                *)
(***************************************************************************)
EXTENDS Integers, Sequences

CONSTANTS
  Names,             \* names of transforms
  PositionTracks,    \* keys of one transl or scale
  RotationTracks,    \* keys of one rot
  VisibilityTracks,  \* keys of one visibility
  Times,             \* times that are asked for
  Q,                 \* a right angle, of half angles
  MaxBlocks, MaxMotions  \* bounds on the file

Angles == 0..(4*Q - 1)
PositionKey == [t : Int, p : Int, tension : Int, continuity : Int, bias : Int]
RotationKey == [t : Int, h : Angles]

ASSUME QAssumption == Q \in Nat \ {0}
ASSUME TracksAssumption ==
  /\ PositionTracks \subseteq Seq(PositionKey)
  /\ RotationTracks \subseteq Seq(RotationKey)
  /\ VisibilityTracks \subseteq Seq([t : Int, visible : BOOLEAN])
  /\ Times \subseteq Int
ASSUME BoundsAssumption == MaxBlocks \in Nat /\ MaxMotions \in Nat

VARIABLES
  mAnimations,  \* the list, its first element first
  text,         \* the keys the fields of mAnimations were made of
  pc,           \* what goes on
  motions,      \* how many motions were read
  RKeys, si,    \* the keys and squads KB_RotInitialize works on
  query,        \* what a Get function was asked for
  i, u,         \* the index and the parameter ComputeIAndU finds
  visible       \* what GetVisibility returned

rotVars   == <<RKeys, si>>
readVars  == <<mAnimations, text, motions>>
queryVars == <<query, i, u, visible>>
vars == <<readVars, rotVars, queryVars, pc>>

Null == << >>

-----------------------------------------------------------------------------
(* Splines *)

(* The tangents at the inner two of four keys, per unit of time and as     *)
(* numerators over the time between the keys around them                   *)
Outgoing(k0, k1, k2) ==
  (1 - k1.tension) *
    ((1 - k1.continuity) * (1 - k1.bias) * (k2.p - k1.p)
       + (1 + k1.continuity) * (1 + k1.bias) * (k1.p - k0.p))
Incoming(k1, k2, k3) ==
  (1 - k2.tension) *
    ((1 - k2.continuity) * (1 + k2.bias) * (k2.p - k1.p)
       + (1 + k2.continuity) * (1 - k2.bias) * (k3.p - k2.p))

Cubic(k0, k1, k2, k3, tout, tin) ==
  LET trange == k2.t - k1.t
      den == (k2.t - k0.t) * (k3.t - k1.t)
      DP == k2.p - k1.p
  IN  [C0 |-> den * k1.p, C1 |-> tout,
       C2 |-> 3 * den * DP - 2 * tout - tin, C3 |-> tout + tin - 2 * den * DP,
       den |-> den, tmin |-> k1.t, tmax |-> k2.t, trange |-> trange]

(* fault: the two adjustments to uneven times are exchanged *)
Polynomial_Exchanged(k0, k1, k2, k3) ==
  Cubic(k0, k1, k2, k3,
        (k2.t - k1.t) * (k2.t - k0.t) * Outgoing(k0, k1, k2),
        (k2.t - k1.t) * (k3.t - k1.t) * Incoming(k1, k2, k3))
(* fault: the interval begins at the key before *)
Polynomial_Early(k0, k1, k2, k3) ==
  [Cubic(k0, k1, k2, k3,
         (k2.t - k1.t) * (k3.t - k1.t) * Outgoing(k0, k1, k2),
         (k2.t - k1.t) * (k2.t - k0.t) * Incoming(k1, k2, k3))
     EXCEPT !.tmin = k0.t, !.trange = k2.t - k0.t]
Polynomial(k0, k1, k2, k3) ==
  Cubic(k0, k1, k2, k3,
        (k2.t - k1.t) * (k3.t - k1.t) * Outgoing(k0, k1, k2),
        (k2.t - k1.t) * (k2.t - k0.t) * Incoming(k1, k2, k3))

KB_PosInitialize(key) ==
  [j \in 1..(Len(key) - 3) |-> Polynomial(key[j], key[j + 1], key[j + 2], key[j + 3])]

Neg(h) == IF h < 2*Q THEN h + 2*Q ELSE h - 2*Q
SameRotation(h1, h2) == h1 = h2 \/ h1 = Neg(h2)

(* the angle between two unit quaternions; more than Q is a negative Dot *)
Apart(h1, h2) ==
  LET d == IF h1 >= h2 THEN h1 - h2 ELSE h2 - h1 IN IF d <= 2*Q THEN d ELSE 4*Q - d

(* of a difference of angles; the Log of minus one is zero *)
Log(d) ==
  IF d \in {2*Q, -2*Q} THEN 0
  ELSE IF d > 2*Q THEN d - 4*Q ELSE IF d < -2*Q THEN d + 4*Q ELSE d

(* without a vector part the angle is 0, for minus one as well *)
ToAngleAxis(h) == IF h = 2*Q THEN 0 ELSE h

SquadInfo(k0, k1, k2, k3, h2) ==
  LET W0 == k2.t - k0.t
      W1 == k3.t - k1.t
      trange == k2.t - k1.t
      d == Log(h2 - k1.h)
  IN  [p |-> k1.h, q |-> h2,
       a |-> 2*W0*W1*k1.h + W1*trange*(d + Log(k1.h - k0.h)) - W0*W1*d,
       b |-> 2*W0*W1*h2 + W0*W1*d - W0*trange*(d + Log(k3.h - h2)),
       den |-> 2*W0*W1, tmin |-> k1.t, tmax |-> k2.t, trange |-> trange]

-----------------------------------------------------------------------------
(* ParseKeyFrames::parse *)

NewAnimation(name) ==
  [name |-> name, translations |-> Null, rotations |-> Null, scales |-> Null,
   visibilities |-> "null", numVisibilities |-> 0]
NewText == [translations |-> Null, rotations |-> Null, scales |-> Null,
            visibilities |-> Null]

Init ==
  /\ mAnimations = << >> /\ text = << >> /\ motions = 0
  /\ RKeys = << >> /\ si = << >>
  /\ pc = "file"
  /\ query = [kind |-> "none"] /\ i = 0 /\ u = <<0, 1>> /\ visible = TRUE

(* k name { *)
ReadName ==
  /\ pc = "file" /\ Len(mAnimations) < MaxBlocks
  /\ \E name \in Names : mAnimations' = <<NewAnimation(name)>> \o mAnimations
  /\ text' = <<NewText>> \o text
  /\ pc' = "block"
  /\ UNCHANGED <<motions, rotVars, queryVars>>

Motion == pc = "block" /\ motions < MaxMotions /\ motions' = motions + 1

ReadPositions(field) ==
  /\ Motion
  /\ \E key \in PositionTracks :
       /\ Len(key) >= 4
       /\ mAnimations' = [mAnimations EXCEPT ![1][field] = KB_PosInitialize(key)]
       /\ text' = [text EXCEPT ![1][field] = key]
  /\ UNCHANGED <<pc, rotVars, queryVars>>

ReadTranslations == ReadPositions("translations")
ReadScales == ReadPositions("scales")

(* KB_RotInitialize is entered; it writes to the keys as it goes *)
ReadRotations ==
  /\ Motion
  /\ \E key \in RotationTracks :
       /\ Len(key) >= 4
       /\ RKeys' = key /\ text' = [text EXCEPT ![1].rotations = key]
  /\ pc' = "rotations"
  /\ UNCHANGED <<mAnimations, si, queryVars>>

(* fault: the key is arranged to the one before it as it was read *)
NextSquad_AsRead ==
  /\ pc = "rotations" /\ Len(si) < Len(RKeys) - 3
  /\ LET i0 == Len(si) + 1
         acute == Apart(RKeys[i0 + 1].h, RKeys[i0 + 2].h) <= Q
         h2 == IF acute THEN RKeys[i0 + 2].h ELSE Neg(RKeys[i0 + 2].h)
     IN  /\ si' = Append(si, SquadInfo(RKeys[i0], RKeys[i0 + 1], RKeys[i0 + 2], RKeys[i0 + 3],
                                        RKeys[i0 + 2].h))
         /\ RKeys' = IF acute THEN RKeys ELSE [RKeys EXCEPT ![i0 + 2].h = ToAngleAxis(h2)]
  /\ UNCHANGED <<readVars, queryVars, pc>>
(* "arrange for consecutive quaternions to have acute angle": a key that   *)
(* is negated for this is negated for the squads to come, too              *)
NextSquad ==
  /\ pc = "rotations" /\ Len(si) < Len(RKeys) - 3
  /\ LET i0 == Len(si) + 1
         acute == Apart(RKeys[i0 + 1].h, RKeys[i0 + 2].h) <= Q
         h2 == IF acute THEN RKeys[i0 + 2].h ELSE Neg(RKeys[i0 + 2].h)
     IN  /\ si' = Append(si, SquadInfo(RKeys[i0], RKeys[i0 + 1], RKeys[i0 + 2], RKeys[i0 + 3], h2))
         /\ RKeys' = IF acute THEN RKeys ELSE [RKeys EXCEPT ![i0 + 2].h = ToAngleAxis(h2)]
  /\ UNCHANGED <<readVars, queryVars, pc>>

EndRotations ==
  /\ pc = "rotations" /\ Len(si) = Len(RKeys) - 3
  /\ mAnimations' = [mAnimations EXCEPT ![1].rotations = si]
  /\ RKeys' = << >> /\ si' = << >>
  /\ pc' = "block"
  /\ UNCHANGED <<text, motions, queryVars>>

(* the keys are freed as soon as the animation points to them *)
ReadVisibilities ==
  /\ Motion
  /\ \E key \in VisibilityTracks :
       /\ mAnimations' = [mAnimations EXCEPT ![1].visibilities = "freed",
                                             ![1].numVisibilities = @ + Len(key)]
       /\ text' = [text EXCEPT ![1].visibilities = key]
  /\ UNCHANGED <<pc, rotVars, queryVars>>

(* } *)
CloseBlock ==
  /\ pc = "block"
  /\ pc' = "file"
  /\ UNCHANGED <<readVars, rotVars, queryVars>>

(* An exception: no name, no {, an unknown motion, fewer than four keys, a *)
(* number that cannot be read.  In a block its animation stays in the list.*)
ParseError ==
  /\ pc \in {"file", "block"}
  /\ pc' = "failed"
  /\ UNCHANGED <<readVars, rotVars, queryVars>>

-----------------------------------------------------------------------------
(* The Get functions.  Without the animation or the track the answer is a  *)
(* default and nothing is searched.                                        *)

(* "returns the first Animation* with name, else NULL": one index or none *)
FindAnimation(name) ==
  {a \in DOMAIN mAnimations :
     mAnimations[a].name = name /\ \A b \in 1..(a - 1) : mAnimations[b].name # name}

Track == mAnimations[query.of][query.kind]

(* fault: times past the last key are not clamped *)
ComputeIAndU_Unclamped(track, t) ==
  IF track[1].tmin < t
  THEN pc' = "search" /\ i' = 1 /\ u' = u
  ELSE pc' = "found" /\ i' = 1 /\ u' = <<0, 1>>
(* "clamp to [tmin,tmax]"; a time between starts the search *)
ComputeIAndU(track, t) ==
  IF track[1].tmin < t
  THEN IF t < track[Len(track)].tmax
       THEN pc' = "search" /\ i' = 1 /\ u' = u
       ELSE pc' = "found" /\ i' = Len(track) /\ u' = <<1, 1>>
  ELSE pc' = "found" /\ i' = 1 /\ u' = <<0, 1>>

Ask(kind) ==
  /\ pc = "file"
  /\ \E name \in Names, t \in Times : \E a \in FindAnimation(name) :
       /\ mAnimations[a][kind] # Null
       /\ query' = [kind |-> kind, of |-> a, time |-> t]
       /\ ComputeIAndU(mAnimations[a][kind], t)
  /\ UNCHANGED <<readVars, rotVars, visible>>

GetTranslation == Ask("translations")
GetScale == Ask("scales")
GetRotation == Ask("rotations")

Searching == pc = "search" /\ i <= Len(Track)

NextPolynomial ==
  /\ Searching /\ ~(query.time < Track[i].tmax)
  /\ i' = i + 1
  /\ UNCHANGED <<readVars, rotVars, pc, query, u, visible>>

(* the end of the loop; after the last polynomial u is read out of bounds *)
Break ==
  /\ pc = "search" /\ (i <= Len(Track) => query.time < Track[i].tmax)
  /\ u' = IF i <= Len(Track)
          THEN <<query.time - Track[i].tmin, Track[i].trange>> ELSE u
  /\ pc' = IF i <= Len(Track) THEN "found" ELSE "outside"
  /\ UNCHANGED <<readVars, rotVars, query, i, visible>>

(* what the freed keys say by now *)
GetVisibility ==
  /\ pc = "file"
  /\ \E name \in Names, t \in Times : \E a \in FindAnimation(name) :
       /\ query' = [kind |-> "visibilities", of |-> a, time |-> t]
       /\ visible' \in IF mAnimations[a].visibilities = "null"
                          \/ mAnimations[a].numVisibilities = 0
                       THEN {TRUE} ELSE BOOLEAN
  /\ pc' = "found"
  /\ UNCHANGED <<readVars, rotVars, i, u>>

(* back in the caller *)
Return ==
  /\ pc = "found"
  /\ pc' = "file" /\ query' = [kind |-> "none"]
  /\ i' = 0 /\ u' = <<0, 1>> /\ visible' = TRUE
  /\ UNCHANGED <<readVars, rotVars>>

Read ==
  \/ ReadName \/ ReadTranslations \/ ReadRotations \/ ReadScales
  \/ ReadVisibilities \/ CloseBlock \/ ParseError
Loop == NextSquad \/ EndRotations \/ NextPolynomial \/ Break
Next ==
  \/ Read \/ Loop
  \/ GetTranslation \/ GetScale \/ GetRotation \/ GetVisibility \/ Return

Spec == Init /\ [][Next]_vars

-----------------------------------------------------------------------------
(* Properties *)

CubicPolynomials ==
  [C0 : Int, C1 : Int, C2 : Int, C3 : Int, den : Int, tmin : Int, tmax : Int, trange : Int]
SquadInfos ==
  [p : Angles, q : Angles, a : Int, b : Int, den : Int, tmin : Int, tmax : Int, trange : Int]
Animations ==
  [name : Names, translations : Seq(CubicPolynomials), rotations : Seq(SquadInfos),
   scales : Seq(CubicPolynomials), visibilities : {"null", "freed"}, numVisibilities : Nat]
Texts ==
  [translations : Seq(PositionKey), rotations : Seq(RotationKey), scales : Seq(PositionKey),
   visibilities : Seq([t : Int, visible : BOOLEAN])]
Splines == {"translations", "scales", "rotations"}
Queries ==
  [kind : {"none"}]
    \cup [kind : Splines \cup {"visibilities"}, of : DOMAIN mAnimations, time : Int]

TypeOK ==
  /\ mAnimations \in Seq(Animations)
  /\ text \in Seq(Texts) /\ Len(text) = Len(mAnimations)
  /\ pc \in {"file", "block", "rotations", "search", "found", "failed", "outside"}
  /\ pc \in {"block", "rotations"} => mAnimations # << >>
  /\ motions \in 0..MaxMotions
  /\ RKeys \in Seq(RotationKey) /\ si \in Seq(SquadInfos)
  /\ query \in Queries /\ i \in Nat /\ u \in Int \X Int /\ visible \in BOOLEAN

Answered == pc = "found" /\ query.kind \in Splines

(* "assert: 0 <= u <= 1" (kbsplpos.cpp, kbsplrot.cpp): whatever the times  *)
(* of the keys are and in whatever order, the search finds a polynomial of *)
(* the track, does not divide by an empty interval, and u is within it.    *)
SearchStaysInside ==
  /\ pc # "outside"
  /\ Answered => i \in DOMAIN Track /\ u[2] > 0 /\ 0 <= u[1] /\ u[1] <= u[2]

Increasing(key) == \A k, l \in DOMAIN key : k < l => key[k].t < key[l].t
Key == text[query.of][query.kind]

(* the keys a time stands for: its own, or the one it is clamped to *)
KeysOf(key, t) ==
  LET n == Len(key) IN
  {k \in 2..(n - 1) : t = key[k].t \/ (k = 2 /\ t < key[k].t) \/ (k = n - 1 /\ t > key[k].t)}

(* InterpolateSingle0 at u equals p, both times the denominators *)
Meets(poly, p) ==
  LET a == u[1]
      b == u[2]
  IN  poly.C0*b*b*b + poly.C1*a*b*b + poly.C2*a*a*b + poly.C3*a*a*a = p*poly.den*b*b*b

(* A spline passes through its keys: asked for the time of a key but the   *)
(* first and last, or for a time outside of them, a track whose times      *)
(* increase answers what the file says there.                              *)
SplinesMeetKeys ==
  Answered /\ Increasing(Key) =>
    \A k \in KeysOf(Key, query.time) :
      IF query.kind = "rotations"
      THEN \/ u[1] = 0 /\ SameRotation(Track[i].p, Key[k].h)
           \/ u[1] = u[2] /\ SameRotation(Track[i].q, Key[k].h)
      ELSE Meets(Track[i], Key[k].p)

(* Where the continuity of a key is 0 the speed does not jump, whatever    *)
(* the distances between the keys in time are.                             *)
SmoothThroughKeys ==
  \A a \in DOMAIN mAnimations, field \in {"translations", "scales"} :
    LET track == mAnimations[a][field]
        key == text[a][field]
    IN  Increasing(key) =>
          \A j \in 1..(Len(track) - 1) :
            key[j + 2].continuity = 0 =>
              (track[j].C1 + 2*track[j].C2 + 3*track[j].C3)
                   * track[j + 1].den * track[j + 1].trange
                = track[j + 1].C1 * track[j].den * track[j].trange

(* A rotation takes the short way between two keys, and goes on where it   *)
(* came to: the ends of a squad are at an acute angle, and the next one    *)
(* begins with the same rotation.                                          *)
RotationsTakeShortWay ==
  \A a \in DOMAIN mAnimations :
    LET track == mAnimations[a].rotations IN
    \A j \in DOMAIN track :
      /\ Apart(track[j].p, track[j].q) <= Q
      /\ j + 1 \in DOMAIN track => SameRotation(track[j].q, track[j + 1].p)
=============================================================================
