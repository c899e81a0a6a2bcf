--------------------------- MODULE Keyframes_proofs ---------------------------
(***************************************************************************)
(* Theorems about Keyframes, for every file: whatever the keys, however    *)
(* many, and at whatever times.                                            *)
(***************************************************************************)
EXTENDS Keyframes, SequenceTheorems, TLAPS

(* a track of positions is what KB_PosInitialize makes of the keys *)
PosMade(track, key) ==
  \/ key = Null /\ track = Null
  \/ Len(key) >= 4 /\ track = KB_PosInitialize(key)

(* a polynomial or squad spans the time between two keys *)
Span(s, k1, k2) == s.tmin = k1.t /\ s.tmax = k2.t /\ s.trange = k2.t - k1.t

Squads(track, key) ==
  \A j \in DOMAIN track :
    /\ Span(track[j], key[j + 1], key[j + 2])
    /\ SameRotation(track[j].p, key[j + 1].h)
    /\ SameRotation(track[j].q, key[j + 2].h)
ShortWay(track) ==
  \A j \in DOMAIN track :
    /\ Apart(track[j].p, track[j].q) <= Q
    /\ j + 1 \in DOMAIN track => SameRotation(track[j].q, track[j + 1].p)
RotMade(track, key) ==
  \/ key = Null /\ track = Null
  \/ Len(key) >= 4 /\ Len(track) = Len(key) - 3 /\ Squads(track, key)

TracksMade ==
  \A a \in DOMAIN mAnimations :
    /\ PosMade(mAnimations[a].translations, text[a].translations)
    /\ PosMade(mAnimations[a].scales, text[a].scales)
    /\ ShortWay(mAnimations[a].rotations)
    /\ ~(a = 1 /\ pc = "rotations") => RotMade(mAnimations[a].rotations, text[a].rotations)

(* within KB_RotInitialize: the keys are those of the file but for signs,  *)
(* and the next squad will begin where the last one ends                   *)
Arranging ==
  LET key == text[1].rotations IN
  /\ Len(key) >= 4 /\ Len(RKeys) = Len(key) /\ Len(si) <= Len(key) - 3
  /\ \A k \in DOMAIN key : RKeys[k].t = key[k].t /\ SameRotation(RKeys[k].h, key[k].h)
  /\ Squads(si, key) /\ ShortWay(si)
  /\ si # << >> => SameRotation(si[Len(si)].q, RKeys[Len(si) + 2].h)

(* within ComputeIAndU: the time lies ahead, and within the track *)
Searched ==
  /\ query.kind \in Splines
  /\ Len(Track) >= 1 /\ i \in 1..(Len(Track) + 1)
  /\ query.time < Track[Len(Track)].tmax
  /\ \A j \in 1..(i - 1) : Track[j].tmax <= query.time
  /\ Track[1].tmin <= query.time

AnswerIsRight ==
  /\ i \in DOMAIN Track
  /\ \/ i = 1 /\ u = <<0, 1>> /\ query.time <= Track[i].tmin
     \/ i = Len(Track) /\ u = <<1, 1>> /\ query.time >= Track[i].tmax
     \/ /\ u = <<query.time - Track[i].tmin, Track[i].trange>>
        /\ Track[i].tmin <= query.time /\ query.time < Track[i].tmax

(* The inductive invariant.  The properties speak of tracks and answers;   *)
(* that they go on holding needs what the loops have done so far.          *)
IInv ==
  /\ TypeOK
  /\ TracksMade
  /\ IF pc = "rotations" THEN Arranging ELSE si = << >>
  /\ pc = "search" => Searched
  /\ Answered => AnswerIsRight
  /\ pc # "outside"

-----------------------------------------------------------------------------
(* Rotations *)

LEMMA NegFacts ==
  ASSUME NEW h \in Angles
  PROVE  Neg(h) \in Angles /\ Neg(Neg(h)) = h
  BY QAssumption DEF Neg, Angles

LEMMA SameRotationFacts ==
  ASSUME NEW h1 \in Angles, NEW h2 \in Angles, NEW h3 \in Angles
  PROVE  /\ SameRotation(h1, h1)
         /\ SameRotation(h1, h2) => SameRotation(h2, h1)
         /\ SameRotation(h1, h2) /\ SameRotation(h2, h3) => SameRotation(h1, h3)
  BY NegFacts DEF SameRotation

(* of two quaternions of one rotation, one is at an acute angle *)
LEMMA NegIsAcute ==
  ASSUME NEW h1 \in Angles, NEW h2 \in Angles, ~(Apart(h1, h2) <= Q)
  PROVE  Apart(h1, Neg(h2)) <= Q
  BY QAssumption DEF Apart, Neg, Angles

LEMMA ToAngleAxisFacts ==
  ASSUME NEW h \in Angles
  PROVE  ToAngleAxis(h) \in Angles /\ SameRotation(h, ToAngleAxis(h))
  BY QAssumption DEF ToAngleAxis, SameRotation, Neg, Angles

LEMMA LogType ==
  ASSUME NEW d \in Int
  PROVE  Log(d) \in Int
  BY QAssumption DEF Log

LEMMA SquadInfoFacts ==
  ASSUME NEW k0 \in RotationKey, NEW k1 \in RotationKey, NEW k2 \in RotationKey,
         NEW k3 \in RotationKey, NEW h2 \in Angles, NEW s, s = SquadInfo(k0, k1, k2, k3, h2)
  PROVE  s \in SquadInfos /\ Span(s, k1, k2) /\ s.p = k1.h /\ s.q = h2
  <1>1. /\ k0.t \in Int /\ k1.t \in Int /\ k2.t \in Int /\ k3.t \in Int
        /\ k0.h \in Int /\ k1.h \in Int /\ k3.h \in Int /\ h2 \in Int
    BY QAssumption DEF RotationKey, Angles
  <1>0. k1.h \in Angles
    BY DEF RotationKey
  <1> DEFINE W0 == k2.t - k0.t
             W1 == k3.t - k1.t
             trange == k2.t - k1.t
             d == Log(h2 - k1.h)
             e0 == Log(k1.h - k0.h)
             e1 == Log(k3.h - h2)
  <1>2. W0 \in Int /\ W1 \in Int /\ trange \in Int /\ k1.h \in Int /\ h2 \in Int
    BY <1>1
  <1>3. d \in Int /\ e0 \in Int /\ e1 \in Int
    <2>1. h2 - k1.h \in Int /\ k1.h - k0.h \in Int /\ k3.h - h2 \in Int
      BY <1>1
    <2> QED BY <2>1, LogType
  <1>4. SquadInfo(k0, k1, k2, k3, h2) =
          [p |-> k1.h, q |-> h2,
           a |-> 2*W0*W1*k1.h + W1*trange*(d + e0) - W0*W1*d,
           b |-> 2*W0*W1*h2 + W0*W1*d - W0*trange*(d + e1),
           den |-> 2*W0*W1, tmin |-> k1.t, tmax |-> k2.t, trange |-> trange]
    BY DEF SquadInfo
  <1> HIDE DEF W0, W1, d, e0, e1
  <1>5. /\ 2*W0*W1*k1.h + W1*trange*(d + e0) - W0*W1*d \in Int
        /\ 2*W0*W1*h2 + W0*W1*d - W0*trange*(d + e1) \in Int
        /\ 2*W0*W1 \in Int
    BY <1>2, <1>3
  <1> QED BY <1>0, <1>1, <1>2, <1>4, <1>5 DEF SquadInfos, Span

-----------------------------------------------------------------------------
(* Positions *)

LEMMA TangentTypes ==
  ASSUME NEW k0 \in PositionKey, NEW k1 \in PositionKey, NEW k2 \in PositionKey
  PROVE  Outgoing(k0, k1, k2) \in Int /\ Incoming(k0, k1, k2) \in Int
  BY DEF Outgoing, Incoming, PositionKey

(* the tangents meet at a key of continuity 0 *)
LEMMA TangentsMeet ==
  ASSUME NEW k1 \in PositionKey, NEW k2 \in PositionKey, NEW k3 \in PositionKey,
         k2.continuity = 0
  PROVE  Incoming(k1, k2, k3) = Outgoing(k1, k2, k3)
  <1> DEFINE A == k2.p - k1.p
             B == k3.p - k2.p
             T == 1 - k2.tension
             X == (1 + k2.bias) * A
             Y == (1 - k2.bias) * B
  <1>1. /\ A \in Int /\ B \in Int /\ T \in Int /\ k2.bias \in Int
        /\ X \in Int /\ Y \in Int
    BY DEF PositionKey
  <1>2. Incoming(k1, k2, k3) = T * (X + Y)
    BY <1>1 DEF Incoming
  <1>3. Outgoing(k1, k2, k3) = T * (Y + X)
    BY <1>1 DEF Outgoing
  <1>4. X + Y = Y + X
    BY <1>1
  <1> QED BY <1>2, <1>3, <1>4

TangentOut(k0, k1, k2, k3) == (k2.t - k1.t) * (k3.t - k1.t) * Outgoing(k0, k1, k2)
TangentIn(k0, k1, k2, k3) == (k2.t - k1.t) * (k2.t - k0.t) * Incoming(k1, k2, k3)
Den(k0, k1, k2, k3) == (k2.t - k0.t) * (k3.t - k1.t)

LEMMA Distribute ==
  ASSUME NEW a \in Int, NEW b \in Int, NEW c \in Int
  PROVE  /\ 3 * a * (b - c) = 3 * (b * a - c * a)
         /\ 2 * a * (b - c) = 2 * (b * a - c * a)
         /\ a * b = b * a
  <1>1. a * b = b * a /\ a * (b - c) = b * a - c * a
    OBVIOUS
  <1>2. 3 * a * (b - c) = 3 * (a * (b - c)) /\ 2 * a * (b - c) = 2 * (a * (b - c))
    OBVIOUS
  <1> QED BY <1>1, <1>2

(* The polynomial of four keys: at 0 it is at the second key and leaves by *)
(* the one tangent, at 1 it is at the third and arrives by the other.      *)
IsCubicOf(s, k0, k1, k2, k3) ==
  /\ s \in CubicPolynomials /\ Span(s, k1, k2)
  /\ s.den = Den(k0, k1, k2, k3)
  /\ s.C0 = k1.p * s.den
  /\ s.C0 + s.C1 + s.C2 + s.C3 = k2.p * s.den
  /\ s.C1 = TangentOut(k0, k1, k2, k3)
  /\ s.C1 + 2*s.C2 + 3*s.C3 = TangentIn(k0, k1, k2, k3)

LEMMA PolynomialFacts ==
  ASSUME NEW k0 \in PositionKey, NEW k1 \in PositionKey, NEW k2 \in PositionKey,
         NEW k3 \in PositionKey
  PROVE  IsCubicOf(Polynomial(k0, k1, k2, k3), k0, k1, k2, k3)
  <1>1. /\ k0.t \in Int /\ k1.t \in Int /\ k2.t \in Int /\ k3.t \in Int
        /\ k1.p \in Int /\ k2.p \in Int
    BY DEF PositionKey
  <1> DEFINE den == Den(k0, k1, k2, k3)
             tout == TangentOut(k0, k1, k2, k3)
             tin == TangentIn(k0, k1, k2, k3)
             D == k2.p * den - k1.p * den
             P1 == k1.p * den
  <1>2. den \in Int /\ tout \in Int /\ tin \in Int /\ D \in Int /\ P1 \in Int
    BY <1>1, TangentTypes DEF Den, TangentOut, TangentIn
  <1>3. Polynomial(k0, k1, k2, k3) =
          [C0 |-> den * k1.p, C1 |-> tout,
           C2 |-> 3 * den * (k2.p - k1.p) - 2 * tout - tin,
           C3 |-> tout + tin - 2 * den * (k2.p - k1.p),
           den |-> den, tmin |-> k1.t, tmax |-> k2.t, trange |-> k2.t - k1.t]
    BY DEF Polynomial, Cubic, Den, TangentOut, TangentIn
  <1> HIDE DEF den, tout, tin
  <1>4. /\ 3 * den * (k2.p - k1.p) = 3 * D /\ 2 * den * (k2.p - k1.p) = 2 * D
        /\ den * k1.p = P1
        /\ P1 + D = k2.p * den
    <2>1. den \in Int /\ k1.p \in Int /\ k2.p \in Int
      BY <1>1, <1>2
    <2>2. 3 * den * (k2.p - k1.p) = 3 * D /\ 2 * den * (k2.p - k1.p) = 2 * D
      BY ONLY <2>1, Distribute
    <2>3. den * k1.p = P1
      BY ONLY <2>1, Distribute
    <2>4. k2.p * den \in Int /\ k1.p * den \in Int
      BY ONLY <2>1
    <2>5. P1 + D = k2.p * den
      BY ONLY <2>4
    <2> QED BY <2>2, <2>3, <2>5
  <1> HIDE DEF D, P1
  <1>5. Polynomial(k0, k1, k2, k3) =
          [C0 |-> P1, C1 |-> tout, C2 |-> 3 * D - 2 * tout - tin, C3 |-> tout + tin - 2 * D,
           den |-> den, tmin |-> k1.t, tmax |-> k2.t, trange |-> k2.t - k1.t]
    BY <1>3, <1>4
  <1>6. /\ 3 * D - 2 * tout - tin \in Int /\ tout + tin - 2 * D \in Int
        /\ P1 + tout + (3 * D - 2 * tout - tin) + (tout + tin - 2 * D) = P1 + D
        /\ tout + 2*(3 * D - 2 * tout - tin) + 3*(tout + tin - 2 * D) = tin
    BY <1>2
  <1>7. Polynomial(k0, k1, k2, k3) \in CubicPolynomials
    BY <1>1, <1>2, <1>5, <1>6 DEF CubicPolynomials
  <1> QED BY <1>4, <1>5, <1>6, <1>7 DEF Span, den, tout, tin, P1, IsCubicOf

(* two polynomials of five keys arrive and leave at the same speed *)
LEMMA SpeedsMeet ==
  ASSUME NEW k0 \in PositionKey, NEW k1 \in PositionKey, NEW k2 \in PositionKey,
         NEW k3 \in PositionKey, NEW k4 \in PositionKey, k2.continuity = 0
  PROVE  TangentIn(k0, k1, k2, k3) * Den(k1, k2, k3, k4) * (k3.t - k2.t)
           = TangentOut(k1, k2, k3, k4) * Den(k0, k1, k2, k3) * (k2.t - k1.t)
  <1> DEFINE A == k2.t - k1.t
             B == k2.t - k0.t
             C == k3.t - k1.t
             D == k4.t - k2.t
             E == k3.t - k2.t
             V == Incoming(k1, k2, k3)
  <1>1. A \in Int /\ B \in Int /\ C \in Int /\ D \in Int /\ E \in Int /\ V \in Int
    BY TangentTypes DEF PositionKey
  <1>2. /\ TangentIn(k0, k1, k2, k3) = A * B * V
        /\ Den(k1, k2, k3, k4) = C * D
        /\ Den(k0, k1, k2, k3) = B * C
    BY DEF TangentIn, Den
  <1>3. TangentOut(k1, k2, k3, k4) = E * D * V
    BY TangentsMeet DEF TangentOut
  <1> HIDE DEF A, B, C, D, E, V
  <1>4. A * B * V * (C * D) * E = E * D * V * (B * C) * A
    BY <1>1
  <1> QED BY <1>2, <1>3, <1>4 DEF A, E

LEMMA KB_PosInitializeFacts ==
  ASSUME NEW key \in Seq(PositionKey), Len(key) >= 4
  PROVE  /\ KB_PosInitialize(key) \in Seq(CubicPolynomials)
         /\ Len(KB_PosInitialize(key)) = Len(key) - 3
         /\ \A j \in 1..(Len(key) - 3) :
              KB_PosInitialize(key)[j] = Polynomial(key[j], key[j + 1], key[j + 2], key[j + 3])
  <1>1. Len(key) \in Nat /\ Len(key) - 3 \in Nat
    BY LenProperties
  <1>2. \A j \in 1..(Len(key) - 3) :
          /\ key[j] \in PositionKey /\ key[j + 1] \in PositionKey
          /\ key[j + 2] \in PositionKey /\ key[j + 3] \in PositionKey
    BY <1>1, ElementOfSeq
  <1>3. \A j \in 1..(Len(key) - 3) :
          Polynomial(key[j], key[j + 1], key[j + 2], key[j + 3]) \in CubicPolynomials
    BY <1>2, PolynomialFacts DEF IsCubicOf
  <1> DEFINE n == Len(key) - 3
             e(j) == Polynomial(key[j], key[j + 1], key[j + 2], key[j + 3])
  <1>4. KB_PosInitialize(key) = [j \in 1..n |-> e(j)]
    BY DEF KB_PosInitialize
  <1>5. n \in Nat /\ \A j \in 1..n : e(j) \in CubicPolynomials
    BY <1>1, <1>3
  <1> HIDE DEF n, e
  <1>6. [j \in 1..n |-> e(j)] \in Seq(CubicPolynomials) /\ Len([j \in 1..n |-> e(j)]) = n
    <2>1. [j \in 1..n |-> e(j)] \in [1..n -> CubicPolynomials]
      BY <1>5
    <2>2. [j \in 1..n |-> e(j)] \in Seq(CubicPolynomials)
      BY <1>5, <2>1, SeqDef
    <2>3. DOMAIN [j \in 1..n |-> e(j)] = 1..n
      OBVIOUS
    <2> QED BY <1>5, <2>2, <2>3, LenProperties
  <1>7. \A j \in 1..n : KB_PosInitialize(key)[j] = e(j)
    BY <1>4
  <1> QED BY <1>4, <1>6, <1>7 DEF n, e

LEMMA PosMadeFacts ==
  ASSUME NEW key \in Seq(PositionKey), NEW track \in Seq(CubicPolynomials), PosMade(track, key)
  PROVE  /\ track # Null => Len(track) = Len(key) - 3 /\ Len(key) >= 4
         /\ \A j \in DOMAIN track : Span(track[j], key[j + 1], key[j + 2])
  <1>1. CASE key = Null /\ track = Null
    BY <1>1, EmptySeq DEF Null
  <1>2. CASE Len(key) >= 4 /\ track = KB_PosInitialize(key)
    <2>1. Len(key) \in Nat /\ Len(track) = Len(key) - 3 /\ DOMAIN track = 1..(Len(key) - 3)
      BY <1>2, KB_PosInitializeFacts, LenProperties
    <2>2. ASSUME NEW j \in DOMAIN track
          PROVE  Span(track[j], key[j + 1], key[j + 2])
      <3>1. /\ key[j] \in PositionKey /\ key[j + 1] \in PositionKey
            /\ key[j + 2] \in PositionKey /\ key[j + 3] \in PositionKey
        BY <2>1, ElementOfSeq
      <3>2. track[j] = Polynomial(key[j], key[j + 1], key[j + 2], key[j + 3])
        BY <1>2, <2>1, KB_PosInitializeFacts
      <3>3. Span(Polynomial(key[j], key[j + 1], key[j + 2], key[j + 3]), key[j + 1], key[j + 2])
        BY <3>1, PolynomialFacts DEF IsCubicOf
      <3> QED BY <3>2, <3>3, Zenon
    <2> QED BY <1>2, <2>1, <2>2
  <1> QED BY <1>1, <1>2 DEF PosMade

-----------------------------------------------------------------------------
(* What a Get function finds *)

(* a track begins and ends with the inner keys, and leaves no gap *)
Spanned(track, key) ==
  /\ Len(track) \in Nat /\ DOMAIN track = 1..Len(track)
  /\ track # Null => Len(track) >= 1 /\ Len(key) = Len(track) + 3
  /\ DOMAIN key = 1..Len(key) /\ Len(key) \in Nat
  /\ \A k \in DOMAIN key : key[k].t \in Int
  /\ \A j \in DOMAIN track : Span(track[j], key[j + 1], key[j + 2])

LEMMA TracksAreSpanned ==
  ASSUME TypeOK, TracksMade, NEW a \in DOMAIN mAnimations, NEW kind \in Splines,
         pc # "rotations"
  PROVE  Spanned(mAnimations[a][kind], text[a][kind])
  <1> DEFINE an == mAnimations[a]
             tx == text[a]
  <1>1. an \in Animations /\ tx \in Texts
    <2>1. a \in 1..Len(mAnimations) /\ a \in 1..Len(text)
      BY LenProperties DEF TypeOK
    <2> QED BY <2>1, ElementOfSeq DEF TypeOK
  <1>2. PosMade(an.translations, tx.translations) /\ PosMade(an.scales, tx.scales)
          /\ RotMade(an.rotations, tx.rotations)
    BY DEF TracksMade
  <1>3. /\ an.translations \in Seq(CubicPolynomials) /\ tx.translations \in Seq(PositionKey)
        /\ an.scales \in Seq(CubicPolynomials) /\ tx.scales \in Seq(PositionKey)
        /\ an.rotations \in Seq(SquadInfos) /\ tx.rotations \in Seq(RotationKey)
    BY <1>1 DEF Animations, Texts
  <1> HIDE DEF an, tx
  <1>4. ASSUME NEW track \in Seq(CubicPolynomials), NEW key \in Seq(PositionKey),
               PosMade(track, key)
        PROVE  Spanned(track, key)
    <2>1. /\ Len(track) \in Nat /\ DOMAIN track = 1..Len(track)
          /\ Len(key) \in Nat /\ DOMAIN key = 1..Len(key)
      BY LenProperties
    <2>2. track # Null => Len(key) = Len(track) + 3 /\ Len(track) >= 1
      <3>1. track # Null => Len(track) = Len(key) - 3 /\ Len(key) >= 4
        BY <1>4, PosMadeFacts
      <3>2. ASSUME NEW m \in Nat, NEW n \in Nat, m = n - 3, n >= 4
            PROVE  n = m + 3 /\ m >= 1
        BY <3>2
      <3> QED BY <2>1, <3>1, <3>2, Zenon
    <2>3. \A k \in DOMAIN key : key[k].t \in Int
      <3>1. \A k \in 1..Len(key) : key[k] \in PositionKey
        BY ElementOfSeq
      <3> QED BY <2>1, <3>1 DEF PositionKey
    <2>4. \A j \in DOMAIN track : Span(track[j], key[j + 1], key[j + 2])
      BY <1>4, PosMadeFacts
    <2> QED BY <2>1, <2>2, <2>3, <2>4 DEF Spanned
  <1>5. Spanned(an.rotations, tx.rotations)
    <2> DEFINE track == an.rotations
               key == tx.rotations
    <2>1. /\ Len(track) \in Nat /\ DOMAIN track = 1..Len(track)
          /\ Len(key) \in Nat /\ DOMAIN key = 1..Len(key)
      BY <1>3, LenProperties
    <2>2. track # Null => Len(key) = Len(track) + 3 /\ Len(track) >= 1
      BY <1>2, <2>1 DEF RotMade
    <2>3. \A k \in DOMAIN key : key[k].t \in Int
      <3>1. \A k \in 1..Len(key) : key[k] \in RotationKey
        BY <1>3, ElementOfSeq
      <3> QED BY <2>1, <3>1 DEF RotationKey
    <2>4. \A j \in DOMAIN track : Span(track[j], key[j + 1], key[j + 2])
      <3>1. CASE track = Null
        BY <2>1, <3>1, EmptySeq DEF Null
      <3>2. CASE Squads(track, key)
        BY <3>2 DEF Squads
      <3> QED BY <1>2, <3>1, <3>2 DEF RotMade
    <2> QED BY <2>1, <2>2, <2>3, <2>4 DEF Spanned
  <1>6. Spanned(an.translations, tx.translations) /\ Spanned(an.scales, tx.scales)
    BY <1>2, <1>3, <1>4
  <1> QED BY <1>5, <1>6 DEF Splines, an, tx

(* the times of a spanned track, as numbers *)
LEMMA SpanTimes ==
  ASSUME NEW track, NEW key, Spanned(track, key), NEW j \in DOMAIN track
  PROVE  /\ track[j].tmin \in Int /\ track[j].tmax \in Int
         /\ track[j].trange = track[j].tmax - track[j].tmin
         /\ track[j].tmin = key[j + 1].t /\ track[j].tmax = key[j + 2].t
         /\ j > 1 => track[j].tmin = track[j - 1].tmax
  <1>0. Len(track) \in Nat /\ DOMAIN track = 1..Len(track) /\ j \in 1..Len(track)
    BY DEF Spanned
  <1>1. Len(track) >= 1
    BY ONLY <1>0
  <1>2. track # Null
    BY <1>1, EmptySeq DEF Null
  <1>3. Len(key) = Len(track) + 3 /\ DOMAIN key = 1..Len(key)
    BY <1>2 DEF Spanned
  <1>4. j + 1 \in DOMAIN key /\ j + 2 \in DOMAIN key
    BY <1>0, <1>3
  <1>5. Span(track[j], key[j + 1], key[j + 2])
    BY DEF Spanned
  <1>6. key[j + 1].t \in Int /\ key[j + 2].t \in Int
    BY <1>4 DEF Spanned
  <1>7. ASSUME j > 1
        PROVE  track[j].tmin = track[j - 1].tmax
    <2>1. j - 1 \in DOMAIN track /\ (j - 1) + 2 = j + 1
      BY <1>0, <1>7
    <2>2. Span(track[j - 1], key[(j - 1) + 1], key[(j - 1) + 2])
      BY <2>1 DEF Spanned
    <2> QED BY <1>5, <2>1, <2>2 DEF Span
  <1> QED BY <1>5, <1>6, <1>7 DEF Span

LEMMA ComputeIAndUFacts ==
  ASSUME TypeOK, TracksMade, pc = "file",
         NEW kind \in Splines, NEW a \in DOMAIN mAnimations, NEW t \in Int,
         mAnimations[a][kind] # Null,
         query' = [kind |-> kind, of |-> a, time |-> t],
         ComputeIAndU(mAnimations[a][kind], t), UNCHANGED readVars
  PROVE  /\ pc' \in {"search", "found"} /\ i' \in Nat /\ u' \in Int \X Int
         /\ pc' = "search" => Searched'
         /\ pc' = "found" => AnswerIsRight'
  <1> DEFINE track == mAnimations[a][kind]
             n == Len(track)
  <1>1. Spanned(track, text[a][kind])
    BY TracksAreSpanned
  <1>2. n \in Nat /\ n >= 1 /\ DOMAIN track = 1..n
    BY <1>1 DEF Spanned
  <1>3. /\ track[1].tmin \in Int /\ track[n].tmax \in Int
    <2>1. 1 \in DOMAIN track /\ n \in DOMAIN track
      BY <1>2
    <2> QED BY <1>1, <2>1, SpanTimes
  <1>4. Track' = track /\ query'.kind = kind /\ query'.time = t
    BY DEF readVars, Track
  <1>5. u \in Int \X Int
    BY DEF TypeOK
  <1> HIDE DEF track
  <1>6. CASE track[1].tmin < t /\ t < track[n].tmax
    <2>1. pc' = "search" /\ i' = 1 /\ u' = u
      BY <1>6 DEF ComputeIAndU, track
    <2>2. Searched'
      BY <1>2, <1>3, <1>4, <1>6, <2>1 DEF Searched
    <2> QED BY <1>5, <2>1, <2>2
  <1>7. CASE track[1].tmin < t /\ ~(t < track[n].tmax)
    <2>1. pc' = "found" /\ i' = n /\ u' = <<1, 1>>
      BY <1>7 DEF ComputeIAndU, track
    <2>2. AnswerIsRight'
      BY <1>2, <1>3, <1>4, <1>7, <2>1 DEF AnswerIsRight
    <2> QED BY <1>2, <2>1, <2>2
  <1>8. CASE ~(track[1].tmin < t)
    <2>1. pc' = "found" /\ i' = 1 /\ u' = <<0, 1>>
      BY <1>8 DEF ComputeIAndU, track
    <2>2. AnswerIsRight'
      BY <1>2, <1>3, <1>4, <1>8, <2>1 DEF AnswerIsRight
    <2> QED BY <2>1, <2>2
  <1> QED BY <1>6, <1>7, <1>8

LEMMA QueriedTrack ==
  ASSUME TypeOK, TracksMade, pc # "rotations", query.kind \in Splines
  PROVE  /\ query.time \in Int /\ query.of \in DOMAIN mAnimations
         /\ Spanned(Track, text[query.of][query.kind])
  <1>1. query \in [kind : Splines \cup {"visibilities"}, of : DOMAIN mAnimations, time : Int]
    BY DEF TypeOK, Queries, Splines
  <1>2. query.of \in DOMAIN mAnimations /\ query.time \in Int
    BY <1>1
  <1> QED BY <1>2, TracksAreSpanned DEF Track

LEMMA NextPolynomialFacts ==
  ASSUME TypeOK, TracksMade, Searched, NextPolynomial
  PROVE  Searched' /\ i' \in Nat
  <1>1. /\ i \in 1..(Len(Track) + 1) /\ i <= Len(Track) /\ i' = i + 1
        /\ ~(query.time < Track[i].tmax)
        /\ UNCHANGED <<query, mAnimations>>
    BY DEF Searched, NextPolynomial, Searching, readVars
  <1>2. query.time \in Int /\ Spanned(Track, text[query.of][query.kind])
    BY QueriedTrack DEF NextPolynomial, Searching, Searched
  <1>3. Len(Track) \in Nat /\ DOMAIN Track = 1..Len(Track) /\ i \in DOMAIN Track
    BY <1>1, <1>2 DEF Spanned
  <1>4. Track[i].tmax \in Int
    BY <1>2, <1>3, SpanTimes
  <1>5. Track' = Track
    BY <1>1 DEF Track
  <1> HIDE DEF Track
  <1>6. \A j \in 1..(i' - 1) : Track[j].tmax <= query.time
    <2> SUFFICES ASSUME NEW j \in 1..(i' - 1)
                 PROVE  Track[j].tmax <= query.time
      OBVIOUS
    <2>1. CASE j = i
      BY <1>1, <1>2, <1>4, <2>1
    <2>2. CASE j # i
      <3>1. j \in 1..(i - 1)
        BY <1>1, <1>3, <2>2
      <3> QED BY <3>1 DEF Searched
    <2> QED BY <2>1, <2>2
  <1>7. i' \in 1..(Len(Track) + 1)
    BY <1>1, <1>3
  <1> QED BY <1>1, <1>5, <1>6, <1>7 DEF Searched

LEMMA BreakFacts ==
  ASSUME TypeOK, TracksMade, Searched, Break
  PROVE  pc' = "found" /\ AnswerIsRight' /\ u' \in Int \X Int
  <1>1. query.time \in Int /\ Spanned(Track, text[query.of][query.kind])
    BY QueriedTrack DEF Break, Searched
  <1> DEFINE n == Len(Track)
  <1>2. n \in Nat /\ DOMAIN Track = 1..n /\ n >= 1 /\ i \in 1..(n + 1)
    BY <1>1 DEF Spanned, Searched
  <1>3. i <= n
    <2> SUFFICES ASSUME i = n + 1
                 PROVE  FALSE
      BY <1>2
    <2>1. n \in 1..(i - 1) /\ n \in DOMAIN Track
      BY <1>2
    <2>2. Track[n].tmax \in Int
      BY <1>1, <2>1, SpanTimes
    <2>3. Track[n].tmax <= query.time /\ query.time < Track[n].tmax
      BY <2>1 DEF Searched
    <2> QED BY <1>1, <2>2, <2>3
  <1>4. i \in DOMAIN Track
    BY <1>2, <1>3
  <1>5. /\ query.time < Track[i].tmax /\ pc' = "found"
        /\ u' = <<query.time - Track[i].tmin, Track[i].trange>>
        /\ UNCHANGED <<query, mAnimations, i>>
    BY <1>3 DEF Break, readVars
  <1>6. Track[i].tmin \in Int /\ Track[i].tmax \in Int
          /\ Track[i].trange = Track[i].tmax - Track[i].tmin
    BY <1>1, <1>4, SpanTimes
  <1>7. Track[i].tmin <= query.time
    <2>1. CASE i = 1
      BY <2>1 DEF Searched
    <2>2. CASE i > 1
      <3>1. i - 1 \in 1..(i - 1)
        BY <1>2, <2>2
      <3>2. Track[i - 1].tmax <= query.time
        BY <3>1 DEF Searched
      <3>3. Track[i].tmin = Track[i - 1].tmax
        BY <1>1, <1>4, <2>2, SpanTimes
      <3> QED BY <3>2, <3>3
    <2> QED BY <1>2, <2>1, <2>2
  <1>8. Track' = Track
    BY <1>5 DEF Track
  <1>9. AnswerIsRight'
    BY <1>4, <1>5, <1>7, <1>8 DEF AnswerIsRight
  <1> QED BY <1>1, <1>5, <1>6, <1>9

-----------------------------------------------------------------------------
(* The invariant *)

LEMMA PrependFacts ==
  ASSUME NEW S, NEW s \in Seq(S), NEW e \in S
  PROVE  /\ <<e>> \o s \in Seq(S)
         /\ Len(<<e>> \o s) = Len(s) + 1
         /\ DOMAIN (<<e>> \o s) = 1..(Len(s) + 1)
         /\ (<<e>> \o s)[1] = e
         /\ \A j \in 2..(Len(s) + 1) : j - 1 \in DOMAIN s /\ (<<e>> \o s)[j] = s[j - 1]
  <1>1. <<e>> \in Seq(S) /\ Len(<<e>>) = 1 /\ <<e>>[1] = e
    OBVIOUS
  <1>2. /\ <<e>> \o s \in Seq(S)
        /\ Len(<<e>> \o s) = 1 + Len(s)
        /\ \A j \in 1..(1 + Len(s)) : (<<e>> \o s)[j] = IF j <= 1 THEN <<e>>[j] ELSE s[j - 1]
    BY <1>1, ConcatProperties
  <1>3. Len(s) \in Nat /\ DOMAIN s = 1..Len(s)
          /\ DOMAIN (<<e>> \o s) = 1..Len(<<e>> \o s)
    BY <1>2, LenProperties
  <1> QED BY <1>1, <1>2, <1>3

LEMMA RewriteFirst ==
  ASSUME NEW S, NEW s \in Seq(S), s # << >>, NEW e \in S
  PROVE  LET r == [s EXCEPT ![1] = e]
         IN  /\ r \in Seq(S) /\ Len(r) = Len(s) /\ DOMAIN r = DOMAIN s
             /\ 1 \in DOMAIN s /\ r[1] = e
             /\ \A j \in DOMAIN s : j # 1 => r[j] = s[j]
  <1>1. Len(s) \in Nat /\ DOMAIN s = 1..Len(s)
    BY LenProperties
  <1>2. 1 \in DOMAIN s
    BY <1>1, EmptySeq
  <1>3. /\ [s EXCEPT ![1] = e] \in Seq(S) /\ Len([s EXCEPT ![1] = e]) = Len(s)
        /\ \A j \in 1..Len(s) : [s EXCEPT ![1] = e][j] = IF j = 1 THEN e ELSE s[j]
    BY <1>1, <1>2, ExceptSeq
  <1> QED BY <1>1, <1>2, <1>3

LEMMA FirstOfList ==
  ASSUME TypeOK, pc \in {"block", "rotations"}
  PROVE  /\ mAnimations # << >> /\ text # << >>
         /\ mAnimations[1] \in Animations /\ text[1] \in Texts
         /\ DOMAIN mAnimations = DOMAIN text /\ 1 \in DOMAIN mAnimations
  <1>1. mAnimations # << >> /\ mAnimations \in Seq(Animations) /\ text \in Seq(Texts)
          /\ Len(text) = Len(mAnimations)
    BY DEF TypeOK
  <1>2. Len(mAnimations) \in Nat /\ Len(mAnimations) # 0
    BY <1>1, EmptySeq, LenProperties
  <1>3. text # << >> /\ 1 \in 1..Len(mAnimations) /\ 1 \in 1..Len(text)
    BY <1>1, <1>2, EmptySeq
  <1> QED BY <1>1, <1>3, ElementOfSeq, LenProperties

LEMMA InitIInv == Init => IInv
  <1> SUFFICES ASSUME Init
               PROVE  IInv
    OBVIOUS
  <1> USE DEF Init
  <1>1. TypeOK
    <2>1. 0 \in 0..MaxMotions
      BY BoundsAssumption
    <2>2. query \in Queries
      BY DEF Queries
    <2> QED BY <2>1, <2>2, EmptySeq DEF TypeOK
  <1>2. TracksMade
    <2>1. DOMAIN mAnimations = {}
      OBVIOUS
    <2> QED BY <2>1 DEF TracksMade
  <1> QED BY <1>1, <1>2 DEF IInv, Answered

LEMMA ReadNameStep ==
  ASSUME IInv, ReadName
  PROVE  IInv'
  <1>1. /\ TypeOK /\ TracksMade /\ si = << >> /\ pc = "file" /\ pc' = "block"
        /\ UNCHANGED <<motions, RKeys, si, query, i, u, visible>>
    BY DEF IInv, ReadName, rotVars, queryVars
  <1>2. PICK name \in Names : mAnimations' = <<NewAnimation(name)>> \o mAnimations
    BY DEF ReadName
  <1>3. text' = <<NewText>> \o text
    BY DEF ReadName
  <1>4. NewAnimation(name) \in Animations /\ NewText \in Texts
    BY EmptySeq DEF NewAnimation, NewText, Animations, Texts, Null
  <1>5. /\ mAnimations' \in Seq(Animations) /\ Len(mAnimations') = Len(mAnimations) + 1
        /\ DOMAIN mAnimations' = 1..(Len(mAnimations) + 1)
        /\ mAnimations'[1] = NewAnimation(name)
        /\ \A j \in 2..(Len(mAnimations) + 1) :
              j - 1 \in DOMAIN mAnimations /\ mAnimations'[j] = mAnimations[j - 1]
    BY <1>1, <1>2, <1>4, PrependFacts DEF TypeOK
  <1>6. /\ text' \in Seq(Texts) /\ Len(text') = Len(text) + 1
        /\ text'[1] = NewText
        /\ \A j \in 2..(Len(text) + 1) : text'[j] = text[j - 1]
    BY <1>1, <1>3, <1>4, PrependFacts DEF TypeOK
  <1>7. Len(mAnimations) = Len(text) /\ Len(mAnimations) \in Nat
          /\ DOMAIN mAnimations = 1..Len(mAnimations)
    BY <1>1, LenProperties DEF TypeOK
  <1>8. TypeOK'
    <2>1. query' \in Queries'
      <3>1. DOMAIN mAnimations \subseteq DOMAIN mAnimations'
        BY <1>5, <1>7
      <3> QED BY <1>1, <3>1 DEF TypeOK, Queries
    <2>2. mAnimations' # << >>
      BY <1>5, <1>7, EmptySeq
    <2> QED BY <1>1, <1>5, <1>6, <1>7, <2>1, <2>2 DEF TypeOK
  <1>9. TracksMade'
    <2> SUFFICES ASSUME NEW a \in DOMAIN mAnimations'
                 PROVE  /\ PosMade(mAnimations'[a].translations, text'[a].translations)
                        /\ PosMade(mAnimations'[a].scales, text'[a].scales)
                        /\ ShortWay(mAnimations'[a].rotations)
                        /\ RotMade(mAnimations'[a].rotations, text'[a].rotations)
      BY DEF TracksMade
    <2>1. CASE a = 1
      <3>1. ShortWay(Null)
        BY DEF ShortWay, Null
      <3> QED BY <1>5, <1>6, <2>1, <3>1 DEF NewAnimation, NewText, PosMade, RotMade
    <2>2. CASE a # 1
      <3>1. a \in 2..(Len(mAnimations) + 1)
        BY <1>5, <1>7, <2>2
      <3>2. mAnimations'[a] = mAnimations[a - 1] /\ text'[a] = text[a - 1]
              /\ a - 1 \in DOMAIN mAnimations
        BY <1>5, <1>6, <1>7, <3>1
      <3> QED BY <1>1, <3>2 DEF TracksMade
    <2> QED BY <2>1, <2>2
  <1> QED BY <1>1, <1>8, <1>9 DEF IInv, Answered

LEMMA ReadPositionsStep ==
  ASSUME IInv, NEW field \in {"translations", "scales"}, ReadPositions(field)
  PROVE  IInv'
  <1>1. /\ TypeOK /\ TracksMade /\ si = << >> /\ pc = "block" /\ pc' = "block"
        /\ motions < MaxMotions /\ motions' = motions + 1
        /\ UNCHANGED <<RKeys, si, query, i, u, visible>>
    BY DEF IInv, ReadPositions, Motion, rotVars, queryVars
  <1>2. PICK key \in PositionTracks :
          /\ Len(key) >= 4
          /\ mAnimations' = [mAnimations EXCEPT ![1][field] = KB_PosInitialize(key)]
          /\ text' = [text EXCEPT ![1][field] = key]
    BY DEF ReadPositions
  <1>3. key \in Seq(PositionKey)
    BY TracksAssumption
  <1> DEFINE track == KB_PosInitialize(key)
             an == [mAnimations[1] EXCEPT ![field] = track]
             tx == [text[1] EXCEPT ![field] = key]
  <1>4. track \in Seq(CubicPolynomials) /\ PosMade(track, key)
    BY <1>2, <1>3, KB_PosInitializeFacts DEF PosMade
  <1>5. /\ mAnimations # << >> /\ text # << >> /\ mAnimations[1] \in Animations
        /\ text[1] \in Texts /\ DOMAIN mAnimations = DOMAIN text /\ 1 \in DOMAIN mAnimations
    BY <1>1, FirstOfList
  <1>6. mAnimations' = [mAnimations EXCEPT ![1] = an] /\ text' = [text EXCEPT ![1] = tx]
    BY <1>2
  <1> HIDE DEF track
  <1>7. an \in Animations /\ tx \in Texts
    BY <1>3, <1>4, <1>5 DEF Animations, Texts
  <1>8. /\ an.rotations = mAnimations[1].rotations /\ tx.rotations = text[1].rotations
        /\ PosMade(an.translations, tx.translations) /\ PosMade(an.scales, tx.scales)
    <2>1. PosMade(mAnimations[1].translations, text[1].translations)
            /\ PosMade(mAnimations[1].scales, text[1].scales)
      BY <1>1, <1>5 DEF TracksMade
    <2> QED BY <1>4, <1>5, <2>1 DEF Animations, Texts
  <1> HIDE DEF an, tx
  <1>9. /\ mAnimations' \in Seq(Animations) /\ Len(mAnimations') = Len(mAnimations)
        /\ DOMAIN mAnimations' = DOMAIN mAnimations /\ mAnimations'[1] = an
        /\ \A j \in DOMAIN mAnimations : j # 1 => mAnimations'[j] = mAnimations[j]
    BY <1>1, <1>5, <1>6, <1>7, RewriteFirst DEF TypeOK
  <1>10. /\ text' \in Seq(Texts) /\ Len(text') = Len(text) /\ text'[1] = tx
         /\ \A j \in DOMAIN text : j # 1 => text'[j] = text[j]
    BY <1>1, <1>5, <1>6, <1>7, RewriteFirst DEF TypeOK
  <1>11. TypeOK'
    <2>1. query' \in Queries'
      BY <1>1, <1>9 DEF TypeOK, Queries
    <2>2. mAnimations' # << >>
      BY <1>5, <1>9, EmptySeq
    <2>3. motions' \in 0..MaxMotions
      BY <1>1, BoundsAssumption DEF TypeOK
    <2> QED BY <1>1, <1>9, <1>10, <2>1, <2>2, <2>3 DEF TypeOK
  <1>12. TracksMade'
    <2> SUFFICES ASSUME NEW a \in DOMAIN mAnimations
                 PROVE  /\ PosMade(mAnimations'[a].translations, text'[a].translations)
                        /\ PosMade(mAnimations'[a].scales, text'[a].scales)
                        /\ ShortWay(mAnimations'[a].rotations)
                        /\ RotMade(mAnimations'[a].rotations, text'[a].rotations)
      BY <1>9 DEF TracksMade
    <2>1. ShortWay(mAnimations[a].rotations) /\ RotMade(mAnimations[a].rotations, text[a].rotations)
      BY <1>1 DEF TracksMade
    <2>2. CASE a = 1
      BY <1>8, <1>9, <1>10, <2>1, <2>2
    <2>3. CASE a # 1
      BY <1>1, <1>5, <1>9, <1>10, <2>3 DEF TracksMade
    <2> QED BY <2>2, <2>3
  <1> QED BY <1>1, <1>11, <1>12 DEF IInv, Answered

LEMMA ReadVisibilitiesStep ==
  ASSUME IInv, ReadVisibilities
  PROVE  IInv'
  <1>1. /\ TypeOK /\ TracksMade /\ si = << >> /\ pc = "block" /\ pc' = "block"
        /\ motions < MaxMotions /\ motions' = motions + 1
        /\ UNCHANGED <<RKeys, si, query, i, u, visible>>
    BY DEF IInv, ReadVisibilities, Motion, rotVars, queryVars
  <1> DEFINE n(key) == mAnimations[1].numVisibilities + Len(key)
             an(key) == [mAnimations[1] EXCEPT !.visibilities = "freed", !.numVisibilities = n(key)]
             tx(key) == [text[1] EXCEPT !.visibilities = key]
  <1>2. PICK key \in VisibilityTracks :
          /\ mAnimations' = [mAnimations EXCEPT ![1] = an(key)]
          /\ text' = [text EXCEPT ![1] = tx(key)]
    <2>1. PICK key \in VisibilityTracks :
            /\ mAnimations' = [mAnimations EXCEPT ![1].visibilities = "freed",
                                                  ![1].numVisibilities = @ + Len(key)]
            /\ text' = [text EXCEPT ![1].visibilities = key]
      BY DEF ReadVisibilities
    <2>2. mAnimations # << >> /\ mAnimations[1] \in Animations /\ 1 \in DOMAIN mAnimations
            /\ mAnimations \in Seq(Animations)
      BY <1>1, FirstOfList DEF TypeOK
    <2>3. mAnimations' = [mAnimations EXCEPT ![1] = an(key)]
      BY <2>1, <2>2 DEF Animations
    <2> QED BY <2>1, <2>3
  <1>3. key \in Seq([t : Int, visible : BOOLEAN]) /\ Len(key) \in Nat
    BY TracksAssumption, LenProperties
  <1>5. /\ mAnimations # << >> /\ text # << >> /\ mAnimations[1] \in Animations
        /\ text[1] \in Texts /\ DOMAIN mAnimations = DOMAIN text /\ 1 \in DOMAIN mAnimations
    BY <1>1, FirstOfList
  <1>6. n(key) \in Nat
    BY <1>3, <1>5 DEF Animations
  <1> HIDE DEF n
  <1>7. an(key) \in Animations /\ tx(key) \in Texts
    BY <1>3, <1>5, <1>6 DEF Animations, Texts
  <1>8. /\ an(key).rotations = mAnimations[1].rotations /\ tx(key).rotations = text[1].rotations
        /\ an(key).translations = mAnimations[1].translations
        /\ tx(key).translations = text[1].translations
        /\ an(key).scales = mAnimations[1].scales /\ tx(key).scales = text[1].scales
    BY <1>5 DEF Animations, Texts
  <1> HIDE DEF an, tx
  <1>9. /\ mAnimations' \in Seq(Animations) /\ Len(mAnimations') = Len(mAnimations)
        /\ DOMAIN mAnimations' = DOMAIN mAnimations /\ mAnimations'[1] = an(key)
        /\ \A j \in DOMAIN mAnimations : j # 1 => mAnimations'[j] = mAnimations[j]
    BY <1>1, <1>2, <1>5, <1>7, RewriteFirst DEF TypeOK
  <1>10. /\ text' \in Seq(Texts) /\ Len(text') = Len(text) /\ text'[1] = tx(key)
         /\ \A j \in DOMAIN text : j # 1 => text'[j] = text[j]
    BY <1>1, <1>2, <1>5, <1>7, RewriteFirst DEF TypeOK
  <1>11. TypeOK'
    <2>1. query' \in Queries'
      BY <1>1, <1>9 DEF TypeOK, Queries
    <2>2. mAnimations' # << >>
      BY <1>5, <1>9, EmptySeq
    <2>3. motions' \in 0..MaxMotions
      BY <1>1, BoundsAssumption DEF TypeOK
    <2> QED BY <1>1, <1>9, <1>10, <2>1, <2>2, <2>3 DEF TypeOK
  <1>12. TracksMade'
    <2>1. ASSUME NEW a \in DOMAIN mAnimations
          PROVE  /\ mAnimations'[a].translations = mAnimations[a].translations
                 /\ mAnimations'[a].scales = mAnimations[a].scales
                 /\ mAnimations'[a].rotations = mAnimations[a].rotations
                 /\ text'[a].translations = text[a].translations
                 /\ text'[a].scales = text[a].scales
                 /\ text'[a].rotations = text[a].rotations
      BY <1>5, <1>8, <1>9, <1>10
    <2> QED BY <1>1, <1>9, <2>1 DEF TracksMade
  <1> QED BY <1>1, <1>11, <1>12 DEF IInv, Answered

LEMMA ReadRotationsStep ==
  ASSUME IInv, ReadRotations
  PROVE  IInv'
  <1>1. /\ TypeOK /\ TracksMade /\ si = << >> /\ pc = "block" /\ pc' = "rotations"
        /\ motions < MaxMotions /\ motions' = motions + 1
        /\ UNCHANGED <<mAnimations, si, query, i, u, visible>>
    BY DEF IInv, ReadRotations, Motion, queryVars
  <1>2. PICK key \in RotationTracks :
          Len(key) >= 4 /\ RKeys' = key /\ text' = [text EXCEPT ![1].rotations = key]
    BY DEF ReadRotations
  <1>3. key \in Seq(RotationKey) /\ Len(key) \in Nat /\ DOMAIN key = 1..Len(key)
    BY TracksAssumption, LenProperties
  <1> DEFINE tx == [text[1] EXCEPT !.rotations = key]
  <1>4. /\ mAnimations # << >> /\ text # << >>
        /\ text[1] \in Texts /\ DOMAIN mAnimations = DOMAIN text
    BY <1>1, FirstOfList
  <1>5. /\ tx \in Texts /\ text' = [text EXCEPT ![1] = tx] /\ tx.rotations = key
        /\ tx.translations = text[1].translations /\ tx.scales = text[1].scales
    BY <1>2, <1>3, <1>4 DEF Texts
  <1> HIDE DEF tx
  <1>6. /\ text' \in Seq(Texts) /\ Len(text') = Len(text) /\ text'[1] = tx
        /\ \A j \in DOMAIN text : j # 1 => text'[j] = text[j]
    BY <1>1, <1>4, <1>5, RewriteFirst DEF TypeOK
  <1>7. TypeOK'
    <2>1. query' \in Queries'
      BY <1>1 DEF TypeOK, Queries
    <2>2. motions' \in 0..MaxMotions
      BY <1>1, BoundsAssumption DEF TypeOK
    <2> QED BY <1>1, <1>2, <1>3, <1>4, <1>6, <2>1, <2>2 DEF TypeOK
  <1>8. TracksMade'
    <2>1. ASSUME NEW a \in DOMAIN mAnimations
          PROVE  /\ text'[a].translations = text[a].translations
                 /\ text'[a].scales = text[a].scales
                 /\ a # 1 => text'[a].rotations = text[a].rotations
      BY <1>4, <1>5, <1>6
    <2> QED BY <1>1, <2>1 DEF TracksMade
  <1>9. Arranging'
    <2>1. /\ si' = << >> /\ Len(si') = 0 /\ text'[1].rotations = key /\ RKeys' = key
          /\ DOMAIN si' = {}
      BY <1>1, <1>2, <1>5, <1>6
    <2>2. \A k \in DOMAIN key : SameRotation(key[k].h, key[k].h)
      BY DEF SameRotation
    <2>3. Squads(<< >>, key) /\ ShortWay(<< >>)
      BY DEF Squads, ShortWay
    <2> QED BY <1>2, <1>3, <2>1, <2>2, <2>3 DEF Arranging
  <1> QED BY <1>1, <1>7, <1>8, <1>9 DEF IInv, Answered

LEMMA NextSquadStep ==
  ASSUME IInv, NextSquad
  PROVE  IInv'
  <1> DEFINE i0 == Len(si) + 1
             acute == Apart(RKeys[i0 + 1].h, RKeys[i0 + 2].h) <= Q
             h2 == IF acute THEN RKeys[i0 + 2].h ELSE Neg(RKeys[i0 + 2].h)
             kept == IF acute THEN h2 ELSE ToAngleAxis(h2)
             s == SquadInfo(RKeys[i0], RKeys[i0 + 1], RKeys[i0 + 2], RKeys[i0 + 3], h2)
             key == text[1].rotations
  <1>1. /\ TypeOK /\ TracksMade /\ Arranging /\ pc = "rotations" /\ pc' = "rotations"
        /\ UNCHANGED <<mAnimations, text, motions, query, i, u, visible>>
        /\ Len(si) < Len(RKeys) - 3
        /\ si' = Append(si, s)
        /\ RKeys' = IF acute THEN RKeys ELSE [RKeys EXCEPT ![i0 + 2].h = ToAngleAxis(h2)]
    BY DEF IInv, NextSquad, readVars, queryVars
  <1>2. /\ Len(si) \in Nat /\ Len(RKeys) \in Nat /\ DOMAIN RKeys = 1..Len(RKeys)
        /\ DOMAIN si = 1..Len(si)
        /\ RKeys \in Seq(RotationKey) /\ si \in Seq(SquadInfos)
    BY <1>1, LenProperties DEF TypeOK
  <1>3. key \in Seq(RotationKey) /\ DOMAIN key = DOMAIN RKeys /\ Len(key) = Len(RKeys)
    <2>1. key \in Seq(RotationKey)
      BY <1>1, FirstOfList DEF Texts
    <2> QED BY <1>1, <1>2, <2>1, LenProperties DEF Arranging
  <1>4. /\ i0 \in 1..Len(RKeys) /\ i0 + 1 \in 1..Len(RKeys)
        /\ i0 + 2 \in 1..Len(RKeys) /\ i0 + 3 \in 1..Len(RKeys)
        /\ i0 \in Nat \ {0} /\ Len(si) = i0 - 1 /\ Len(si) + 2 = i0 + 1
    BY <1>1, <1>2
  <1>5. /\ RKeys[i0] \in RotationKey /\ RKeys[i0 + 1] \in RotationKey
        /\ RKeys[i0 + 2] \in RotationKey /\ RKeys[i0 + 3] \in RotationKey
        /\ \A k \in DOMAIN key : key[k].h \in Angles /\ RKeys[k].h \in Angles
    <2>1. \A k \in 1..Len(RKeys) : RKeys[k] \in RotationKey /\ key[k] \in RotationKey
      BY <1>2, <1>3, ElementOfSeq
    <2> QED BY <1>2, <1>3, <1>4, <2>1 DEF RotationKey
  <1>6. RKeys[i0 + 1].h \in Angles /\ RKeys[i0 + 2].h \in Angles
          /\ key[i0 + 1].h \in Angles /\ key[i0 + 2].h \in Angles
    BY <1>2, <1>3, <1>4, <1>5
  <1>7. h2 \in Angles /\ SameRotation(h2, RKeys[i0 + 2].h) /\ Apart(RKeys[i0 + 1].h, h2) <= Q
    BY <1>6, NegFacts, NegIsAcute DEF SameRotation
  <1>8. kept \in Angles /\ SameRotation(h2, kept)
    BY <1>7, ToAngleAxisFacts, SameRotationFacts
  <1>9. s \in SquadInfos /\ Span(s, RKeys[i0 + 1], RKeys[i0 + 2])
          /\ s.p = RKeys[i0 + 1].h /\ s.q = h2
    <2>1. h2 \in Angles
      BY <1>7
    <2>2. s = SquadInfo(RKeys[i0], RKeys[i0 + 1], RKeys[i0 + 2], RKeys[i0 + 3], h2)
      OBVIOUS
    <2> HIDE DEF h2, s, i0
    <2> QED BY <1>5, <2>1, <2>2, SquadInfoFacts
  <1> HIDE DEF s, h2, acute
  <1>0. i0 = Len(si) + 1
    OBVIOUS
  <1> HIDE DEF i0
  <1>10. /\ RKeys' \in Seq(RotationKey) /\ Len(RKeys') = Len(RKeys)
         /\ \A k \in 1..Len(RKeys) :
              RKeys'[k].t = RKeys[k].t /\ RKeys'[k].h = IF k = i0 + 2 THEN kept ELSE RKeys[k].h
    <2>1. CASE acute
      <3>1. kept = RKeys[i0 + 2].h
        BY <2>1 DEF h2
      <3> QED BY <1>1, <1>2, <2>1, <3>1
    <2>2. CASE ~acute
      <3> DEFINE r == [RKeys[i0 + 2] EXCEPT !.h = kept]
      <3>1. RKeys' = [RKeys EXCEPT ![i0 + 2] = r]
        BY <1>1, <2>2
      <3>2. r \in RotationKey /\ r.t = RKeys[i0 + 2].t /\ r.h = kept
        BY <1>5, <1>8 DEF RotationKey
      <3> HIDE DEF r
      <3>3. /\ RKeys' \in Seq(RotationKey) /\ Len(RKeys') = Len(RKeys)
            /\ \A k \in 1..Len(RKeys) : RKeys'[k] = IF k = i0 + 2 THEN r ELSE RKeys[k]
        BY <1>2, <1>4, <3>1, <3>2, ExceptSeq
      <3> QED BY <3>2, <3>3
    <2> QED BY <2>1, <2>2
  <1> HIDE DEF kept
  <1>11. /\ si' \in Seq(SquadInfos) /\ Len(si') = i0 /\ DOMAIN si' = 1..i0 /\ si'[i0] = s
         /\ \A j \in DOMAIN si : si'[j] = si[j]
    <2>1. /\ si' \in Seq(SquadInfos) /\ Len(si') = Len(si) + 1 /\ si'[Len(si) + 1] = s
          /\ \A j \in 1..Len(si) : si'[j] = si[j]
      BY <1>1, <1>2, <1>9, AppendProperties
    <2>2. DOMAIN si' = 1..Len(si')
      BY <2>1, LenProperties
    <2> QED BY <1>0, <1>2, <2>1, <2>2
  <1>12. SameRotation(RKeys[i0 + 1].h, key[i0 + 1].h) /\ SameRotation(RKeys[i0 + 2].h, key[i0 + 2].h)
           /\ RKeys[i0 + 1].t = key[i0 + 1].t /\ RKeys[i0 + 2].t = key[i0 + 2].t
    BY <1>1, <1>2, <1>3, <1>4 DEF Arranging
  <1>13. SameRotation(h2, key[i0 + 2].h) /\ SameRotation(kept, key[i0 + 2].h)
    BY <1>6, <1>7, <1>8, <1>12, SameRotationFacts
  <1>14. Squads(si', key)
    <2> SUFFICES ASSUME NEW j \in 1..i0
                 PROVE  /\ Span(si'[j], key[j + 1], key[j + 2])
                        /\ SameRotation(si'[j].p, key[j + 1].h)
                        /\ SameRotation(si'[j].q, key[j + 2].h)
      BY <1>11 DEF Squads
    <2>1. CASE j = i0
      BY <1>9, <1>11, <1>12, <1>13, <2>1 DEF Span
    <2>2. CASE j # i0
      <3>1. j \in DOMAIN si
        BY <1>2, <1>4, <2>2
      <3> QED BY <1>1, <1>11, <3>1 DEF Arranging, Squads
    <2> QED BY <2>1, <2>2
  <1>15. ShortWay(si')
    <2> SUFFICES ASSUME NEW j \in 1..i0
                 PROVE  /\ Apart(si'[j].p, si'[j].q) <= Q
                        /\ j + 1 \in 1..i0 => SameRotation(si'[j].q, si'[j + 1].p)
      BY <1>11 DEF ShortWay
    <2>1. CASE j = i0
      BY <1>4, <1>7, <1>9, <1>11, <2>1
    <2>2. CASE j + 1 = i0
      <3>1. j \in DOMAIN si /\ j = Len(si)
        BY <1>2, <1>4, <2>2
      <3>2. si # << >>
        BY <1>2, <3>1, EmptySeq
      <3>3. SameRotation(si[j].q, RKeys[i0 + 1].h)
        BY <1>1, <1>4, <3>1, <3>2 DEF Arranging
      <3>4. Apart(si[j].p, si[j].q) <= Q
        BY <1>1, <3>1 DEF Arranging, ShortWay
      <3> QED BY <1>9, <1>11, <2>2, <3>1, <3>3, <3>4
    <2>3. CASE j # i0 /\ j + 1 # i0
      <3>1. j \in DOMAIN si /\ j + 1 \in DOMAIN si
        BY <1>2, <1>4, <2>3
      <3> QED BY <1>1, <1>11, <3>1 DEF Arranging, ShortWay
    <2> QED BY <2>1, <2>2, <2>3
  <1>16. Arranging'
    <2>1. Len(si') <= Len(key) - 3
      BY <1>1, <1>2, <1>3, <1>4, <1>11
    <2>2. \A k \in DOMAIN key : RKeys'[k].t = key[k].t /\ SameRotation(RKeys'[k].h, key[k].h)
      <3> SUFFICES ASSUME NEW k \in DOMAIN key
                   PROVE  RKeys'[k].t = key[k].t /\ SameRotation(RKeys'[k].h, key[k].h)
        OBVIOUS
      <3>1. RKeys[k].t = key[k].t /\ SameRotation(RKeys[k].h, key[k].h)
        BY <1>1 DEF Arranging
      <3>2. /\ RKeys'[k].t = RKeys[k].t
            /\ RKeys'[k].h = IF k = i0 + 2 THEN kept ELSE RKeys[k].h
        BY <1>1, <1>2, <1>3, <1>10 DEF Arranging
      <3>3. CASE k = i0 + 2
        BY <1>13, <3>1, <3>2, <3>3
      <3>4. CASE k # i0 + 2
        BY <3>1, <3>2, <3>4
      <3> QED BY <3>3, <3>4
    <2>3. SameRotation(si'[Len(si')].q, RKeys'[Len(si') + 2].h)
      BY <1>4, <1>8, <1>9, <1>10, <1>11
    <2>4. Len(key) >= 4 /\ text'[1].rotations = key
      BY <1>1 DEF Arranging
    <2> QED BY <1>3, <1>10, <1>14, <1>15, <2>1, <2>2, <2>3, <2>4 DEF Arranging
  <1>17. TypeOK'
    <2>1. query' \in Queries'
      BY <1>1 DEF TypeOK, Queries
    <2> QED BY <1>1, <1>10, <1>11, <2>1 DEF TypeOK
  <1>18. TracksMade'
    BY <1>1 DEF TracksMade
  <1> QED BY <1>1, <1>16, <1>17, <1>18 DEF IInv, Answered

LEMMA EndRotationsStep ==
  ASSUME IInv, EndRotations
  PROVE  IInv'
  <1> DEFINE an == [mAnimations[1] EXCEPT !.rotations = si]
             key == text[1].rotations
  <1>1. /\ TypeOK /\ TracksMade /\ Arranging /\ pc = "rotations" /\ pc' = "block"
        /\ Len(si) = Len(RKeys) - 3
        /\ UNCHANGED <<text, motions, query, i, u, visible>>
        /\ mAnimations' = [mAnimations EXCEPT ![1] = an]
        /\ RKeys' = << >> /\ si' = << >>
    BY DEF IInv, EndRotations, queryVars
  <1>2. /\ mAnimations # << >> /\ mAnimations[1] \in Animations
        /\ DOMAIN mAnimations = DOMAIN text /\ 1 \in DOMAIN mAnimations
    BY <1>1, FirstOfList
  <1>3. /\ an \in Animations /\ an.rotations = si
        /\ an.translations = mAnimations[1].translations /\ an.scales = mAnimations[1].scales
    BY <1>1, <1>2 DEF Animations, TypeOK
  <1> HIDE DEF an
  <1>4. /\ mAnimations' \in Seq(Animations) /\ Len(mAnimations') = Len(mAnimations)
        /\ DOMAIN mAnimations' = DOMAIN mAnimations /\ mAnimations'[1] = an
        /\ \A j \in DOMAIN mAnimations : j # 1 => mAnimations'[j] = mAnimations[j]
    BY <1>1, <1>2, <1>3, RewriteFirst DEF TypeOK
  <1>5. TypeOK'
    <2>1. query' \in Queries'
      BY <1>1, <1>4 DEF TypeOK, Queries
    <2>2. mAnimations' # << >>
      BY <1>2, <1>4, EmptySeq
    <2> QED BY <1>1, <1>4, <2>1, <2>2, EmptySeq DEF TypeOK
  <1>6. RotMade(si, key) /\ ShortWay(si)
    BY <1>1 DEF Arranging, RotMade
  <1>7. TracksMade'
    <2> SUFFICES ASSUME NEW a \in DOMAIN mAnimations
                 PROVE  /\ PosMade(mAnimations'[a].translations, text[a].translations)
                        /\ PosMade(mAnimations'[a].scales, text[a].scales)
                        /\ ShortWay(mAnimations'[a].rotations)
                        /\ RotMade(mAnimations'[a].rotations, text[a].rotations)
      BY <1>1, <1>4 DEF TracksMade
    <2>1. CASE a = 1
      BY <1>1, <1>3, <1>4, <1>6, <2>1 DEF TracksMade
    <2>2. CASE a # 1
      BY <1>1, <1>4, <2>2 DEF TracksMade
    <2> QED BY <2>1, <2>2
  <1> QED BY <1>1, <1>5, <1>7 DEF IInv, Answered

(* an action that reads nothing leaves the tracks as they are *)
LEMMA ReadVarsUnchanged ==
  ASSUME TypeOK, TracksMade, pc # "rotations", UNCHANGED <<readVars, rotVars>>
  PROVE  /\ TracksMade'
         /\ mAnimations' \in Seq(Animations) /\ text' \in Seq(Texts)
         /\ Len(text') = Len(mAnimations') /\ motions' \in 0..MaxMotions
         /\ RKeys' \in Seq(RotationKey) /\ si' = si /\ si' \in Seq(SquadInfos)
         /\ mAnimations' = mAnimations /\ text' = text
         /\ Queries' = Queries
  <1>1. UNCHANGED <<mAnimations, text, motions, RKeys, si>>
    BY DEF readVars, rotVars
  <1>2. TracksMade'
    BY <1>1 DEF TracksMade
  <1> QED BY <1>1, <1>2 DEF TypeOK, Queries

LEMMA CloseOrErrorStep ==
  ASSUME IInv, CloseBlock \/ ParseError
  PROVE  IInv'
  <1>1. /\ TypeOK /\ TracksMade /\ pc \in {"file", "block"} /\ si = << >>
        /\ pc' \in {"file", "failed"}
        /\ UNCHANGED <<readVars, rotVars>> /\ UNCHANGED <<query, i, u, visible>>
    BY DEF IInv, CloseBlock, ParseError, queryVars
  <1>2. TypeOK' /\ TracksMade' /\ si' = << >>
    BY <1>1, ReadVarsUnchanged DEF TypeOK
  <1> QED BY <1>1, <1>2 DEF IInv, Answered

LEMMA AskStep ==
  ASSUME IInv, NEW kind \in Splines, Ask(kind)
  PROVE  IInv'
  <1>1. /\ TypeOK /\ TracksMade /\ pc = "file" /\ si = << >>
        /\ UNCHANGED <<readVars, rotVars>> /\ visible' = visible
    BY DEF IInv, Ask
  <1>2. PICK name \in Names, t \in Times : \E a \in FindAnimation(name) :
          /\ mAnimations[a][kind] # Null
          /\ query' = [kind |-> kind, of |-> a, time |-> t]
          /\ ComputeIAndU(mAnimations[a][kind], t)
    BY DEF Ask
  <1>3. PICK a \in FindAnimation(name) :
          /\ mAnimations[a][kind] # Null
          /\ query' = [kind |-> kind, of |-> a, time |-> t]
          /\ ComputeIAndU(mAnimations[a][kind], t)
    BY <1>2
  <1>4. a \in DOMAIN mAnimations /\ t \in Int
    BY TracksAssumption DEF FindAnimation
  <1>5. /\ pc' \in {"search", "found"} /\ i' \in Nat /\ u' \in Int \X Int
        /\ pc' = "search" => Searched'
        /\ pc' = "found" => AnswerIsRight'
    BY <1>1, <1>3, <1>4, ComputeIAndUFacts
  <1>6. query' \in Queries
    BY <1>3, <1>4 DEF Queries
  <1>7. TypeOK' /\ TracksMade' /\ si' = << >>
    BY <1>1, <1>5, <1>6, ReadVarsUnchanged DEF TypeOK
  <1> QED BY <1>5, <1>7 DEF IInv, Answered

LEMMA SearchStep ==
  ASSUME IInv, NextPolynomial \/ Break
  PROVE  IInv'
  <1>1. /\ TypeOK /\ TracksMade /\ pc = "search" /\ si = << >> /\ Searched
        /\ UNCHANGED <<readVars, rotVars>> /\ UNCHANGED <<query, visible>>
    BY DEF IInv, NextPolynomial, Searching, Break
  <1>2. CASE NextPolynomial
    <2>1. Searched' /\ i' \in Nat /\ pc' = "search" /\ u' = u
      BY <1>1, <1>2, NextPolynomialFacts DEF NextPolynomial
    <2>2. TypeOK' /\ TracksMade' /\ si' = << >>
      BY <1>1, <2>1, ReadVarsUnchanged DEF TypeOK
    <2> QED BY <2>1, <2>2 DEF IInv, Answered
  <1>3. CASE Break
    <2>1. pc' = "found" /\ AnswerIsRight' /\ u' \in Int \X Int /\ i' = i
      BY <1>1, <1>3, BreakFacts DEF Break
    <2>2. TypeOK' /\ TracksMade' /\ si' = << >>
      BY <1>1, <2>1, ReadVarsUnchanged DEF TypeOK
    <2> QED BY <2>1, <2>2 DEF IInv, Answered
  <1> QED BY <1>2, <1>3

LEMMA GetVisibilityStep ==
  ASSUME IInv, GetVisibility
  PROVE  IInv'
  <1>1. /\ TypeOK /\ TracksMade /\ pc = "file" /\ si = << >> /\ pc' = "found"
        /\ UNCHANGED <<readVars, rotVars>> /\ UNCHANGED <<i, u>>
    BY DEF IInv, GetVisibility
  <1>2. PICK name \in Names, t \in Times : \E a \in FindAnimation(name) :
          /\ query' = [kind |-> "visibilities", of |-> a, time |-> t]
          /\ visible' \in IF mAnimations[a].visibilities = "null"
                             \/ mAnimations[a].numVisibilities = 0
                          THEN {TRUE} ELSE BOOLEAN
    BY DEF GetVisibility
  <1>3. query' \in Queries /\ visible' \in BOOLEAN /\ query'.kind \notin Splines
    <2>1. PICK a \in FindAnimation(name) :
            /\ query' = [kind |-> "visibilities", of |-> a, time |-> t]
            /\ visible' \in IF mAnimations[a].visibilities = "null"
                               \/ mAnimations[a].numVisibilities = 0
                            THEN {TRUE} ELSE BOOLEAN
      BY <1>2
    <2>2. a \in DOMAIN mAnimations /\ t \in Int
      BY TracksAssumption DEF FindAnimation
    <2>3. query' \in Queries
      BY <2>1, <2>2 DEF Queries
    <2>4. query'.kind \notin Splines
      BY <2>1 DEF Splines
    <2>5. visible' \in BOOLEAN
      BY <2>1, Zenon
    <2> QED BY <2>3, <2>4, <2>5
  <1>4. TypeOK' /\ TracksMade' /\ si' = << >>
    BY <1>1, <1>3, ReadVarsUnchanged DEF TypeOK
  <1> QED BY <1>1, <1>3, <1>4 DEF IInv, Answered

LEMMA ReturnStep ==
  ASSUME IInv, Return
  PROVE  IInv'
  <1>1. /\ TypeOK /\ TracksMade /\ pc = "found" /\ si = << >> /\ pc' = "file"
        /\ UNCHANGED <<readVars, rotVars>> /\ query' = [kind |-> "none"]
        /\ i' = 0 /\ u' = <<0, 1>> /\ visible' = TRUE
    BY DEF IInv, Return
  <1>2. query' \in Queries
    BY <1>1 DEF Queries
  <1>3. TypeOK' /\ TracksMade' /\ si' = << >>
    BY <1>1, <1>2, ReadVarsUnchanged DEF TypeOK
  <1> QED BY <1>1, <1>3 DEF IInv, Answered

LEMMA StutterStep ==
  ASSUME IInv, UNCHANGED vars
  PROVE  IInv'
  BY DEF IInv, vars, readVars, rotVars, queryVars, TypeOK, Queries, TracksMade, Arranging,
         Searched, Answered, AnswerIsRight, Track

(* At any time the tracks of every animation are those of its keys, and a  *)
(* search has gone as far as the time it looks for (kbsplpos.cpp,          *)
(* kbsplrot.cpp).                                                          *)
THEOREM KeyframesInvariant == Spec => []IInv
  <1>1. ASSUME IInv, [Next]_vars
        PROVE  IInv'
    <2>1. CASE ReadName
      BY <1>1, <2>1, ReadNameStep
    <2>2. CASE ReadTranslations
      BY <1>1, <2>2, ReadPositionsStep DEF ReadTranslations
    <2>3. CASE ReadScales
      BY <1>1, <2>3, ReadPositionsStep DEF ReadScales
    <2>4. CASE ReadRotations
      BY <1>1, <2>4, ReadRotationsStep
    <2>5. CASE ReadVisibilities
      BY <1>1, <2>5, ReadVisibilitiesStep
    <2>6. CASE CloseBlock \/ ParseError
      BY <1>1, <2>6, CloseOrErrorStep
    <2>7. CASE NextSquad
      BY <1>1, <2>7, NextSquadStep
    <2>8. CASE EndRotations
      BY <1>1, <2>8, EndRotationsStep
    <2>9. CASE NextPolynomial \/ Break
      BY <1>1, <2>9, SearchStep
    <2>10. CASE GetTranslation \/ GetScale \/ GetRotation
      BY <1>1, <2>10, AskStep DEF GetTranslation, GetScale, GetRotation, Splines
    <2>11. CASE GetVisibility
      BY <1>1, <2>11, GetVisibilityStep
    <2>12. CASE Return
      BY <1>1, <2>12, ReturnStep
    <2>13. CASE UNCHANGED vars
      BY <1>1, <2>13, StutterStep
    <2> QED
      BY <1>1, <2>1, <2>2, <2>3, <2>4, <2>5, <2>6, <2>7, <2>8, <2>9, <2>10, <2>11, <2>12, <2>13
      DEF Next, Read, Loop
  <1> QED BY InitIInv, <1>1, PTL DEF Spec

-----------------------------------------------------------------------------
(* The properties *)

(* The list, its tracks and what is found have their types: no keys of a   *)
(* file make ParseKeyFrames write to a wrong field or out of an array.     *)
THEOREM KeyframesTypeCorrect == Spec => []TypeOK
  BY KeyframesInvariant, PTL DEF IInv

LEMMA AnswersAreInside ==
  ASSUME IInv
  PROVE  SearchStaysInside
  <1> SUFFICES ASSUME Answered
               PROVE  i \in DOMAIN Track /\ u[2] > 0 /\ 0 <= u[1] /\ u[1] <= u[2]
    BY DEF IInv, SearchStaysInside
  <1>1. AnswerIsRight /\ query.kind \in Splines /\ pc = "found" /\ TypeOK /\ TracksMade
    BY DEF IInv, Answered
  <1>2. query.time \in Int /\ Spanned(Track, text[query.of][query.kind])
    BY <1>1, QueriedTrack
  <1>3. i \in DOMAIN Track
    BY <1>1 DEF AnswerIsRight
  <1>4. /\ Track[i].tmin \in Int /\ Track[i].tmax \in Int
        /\ Track[i].trange = Track[i].tmax - Track[i].tmin
    BY <1>2, <1>3, SpanTimes
  <1>5. CASE u = <<0, 1>> \/ u = <<1, 1>>
    BY <1>3, <1>5
  <1>6. CASE /\ u = <<query.time - Track[i].tmin, Track[i].trange>>
             /\ Track[i].tmin <= query.time /\ query.time < Track[i].tmax
    BY <1>2, <1>3, <1>4, <1>6
  <1> QED BY <1>1, <1>5, <1>6 DEF AnswerIsRight

(* ComputeIAndU and KB_RotInterpolate find an interval of the track that   *)
(* holds the time, whatever the times of the keys are and in whatever      *)
(* order they come.                                                        *)
THEOREM SearchInside == Spec => []SearchStaysInside
  BY KeyframesInvariant, AnswersAreInside, PTL

LEMMA TracksAreShortWay ==
  ASSUME IInv
  PROVE  RotationsTakeShortWay
  BY DEF IInv, TracksMade, ShortWay, RotationsTakeShortWay

(* KB_RotInitialize keeps the ends of every squad at an acute angle and    *)
(* begins the next one where it ended.                                     *)
THEOREM ShortWayTaken == Spec => []RotationsTakeShortWay
  BY KeyframesInvariant, TracksAreShortWay, PTL

LEMMA TracksAreSmooth ==
  ASSUME IInv
  PROVE  SmoothThroughKeys
  <1> SUFFICES ASSUME NEW a \in DOMAIN mAnimations, NEW field \in {"translations", "scales"},
                      NEW j \in 1..(Len(mAnimations[a][field]) - 1),
                      text[a][field][j + 2].continuity = 0
               PROVE  LET track == mAnimations[a][field] IN
                      (track[j].C1 + 2*track[j].C2 + 3*track[j].C3)
                           * track[j + 1].den * track[j + 1].trange
                        = track[j + 1].C1 * track[j].den * track[j].trange
    BY DEF SmoothThroughKeys
  <1> DEFINE track == mAnimations[a][field]
             key == text[a][field]
  <1>1. mAnimations[a] \in Animations /\ text[a] \in Texts
    <2>1. TypeOK /\ a \in 1..Len(mAnimations) /\ a \in 1..Len(text)
      BY LenProperties DEF IInv, TypeOK
    <2> QED BY <2>1, ElementOfSeq DEF TypeOK
  <1>2. track \in Seq(CubicPolynomials) /\ key \in Seq(PositionKey) /\ PosMade(track, key)
    BY <1>1 DEF Animations, Texts, IInv, TracksMade
  <1> HIDE DEF track, key
  <1>3. Len(track) \in Nat /\ DOMAIN track = 1..Len(track) /\ Len(key) \in Nat
    BY <1>2, LenProperties
  <1>4. track # Null
    BY <1>3, EmptySeq DEF Null, track
  <1>5. Len(track) = Len(key) - 3 /\ Len(key) >= 4 /\ track = KB_PosInitialize(key)
    BY <1>2, <1>4, PosMadeFacts DEF PosMade
  <1>6. j \in 1..(Len(key) - 4) /\ j \in 1..(Len(key) - 3) /\ j + 1 \in 1..(Len(key) - 3)
          /\ (j + 1) + 1 = j + 2 /\ (j + 1) + 2 = j + 3 /\ (j + 1) + 3 = j + 4
    BY <1>3, <1>5 DEF track
  <1>7. /\ key[j] \in PositionKey /\ key[j + 1] \in PositionKey /\ key[j + 2] \in PositionKey
        /\ key[j + 3] \in PositionKey /\ key[j + 4] \in PositionKey
    <2>1. j \in 1..Len(key) /\ j + 1 \in 1..Len(key) /\ j + 2 \in 1..Len(key)
            /\ j + 3 \in 1..Len(key) /\ j + 4 \in 1..Len(key)
      BY <1>3, <1>6
    <2> QED BY <1>2, <2>1, ElementOfSeq
  <1>8. /\ track[j] = Polynomial(key[j], key[j + 1], key[j + 2], key[j + 3])
        /\ track[j + 1] = Polynomial(key[j + 1], key[j + 2], key[j + 3], key[j + 4])
    BY <1>2, <1>5, <1>6, KB_PosInitializeFacts
  <1>9. /\ IsCubicOf(track[j], key[j], key[j + 1], key[j + 2], key[j + 3])
        /\ IsCubicOf(track[j + 1], key[j + 1], key[j + 2], key[j + 3], key[j + 4])
    BY <1>7, <1>8, PolynomialFacts
  <1>10. /\ track[j].C1 + 2*track[j].C2 + 3*track[j].C3
              = TangentIn(key[j], key[j + 1], key[j + 2], key[j + 3])
         /\ track[j].den = Den(key[j], key[j + 1], key[j + 2], key[j + 3])
         /\ track[j].trange = key[j + 2].t - key[j + 1].t
         /\ track[j + 1].C1 = TangentOut(key[j + 1], key[j + 2], key[j + 3], key[j + 4])
         /\ track[j + 1].den = Den(key[j + 1], key[j + 2], key[j + 3], key[j + 4])
         /\ track[j + 1].trange = key[j + 3].t - key[j + 2].t
    BY <1>9, Zenon DEF Span, IsCubicOf
  <1>11. key[j + 2].continuity = 0
    BY DEF key
  <1> QED BY <1>7, <1>10, <1>11, SpeedsMeet DEF track

(* Where the continuity of a key is 0 a position goes through it without a *)
(* jump in speed, for keys at any distance in time (KB_PosInitialize).     *)
THEOREM SmoothSplines == Spec => []SmoothThroughKeys
  BY KeyframesInvariant, TracksAreSmooth, PTL

LEMMA MeetsAtZero ==
  ASSUME NEW s \in CubicPolynomials, NEW p \in Int, s.C0 = p * s.den,
         u[1] = 0, u[2] \in Int
  PROVE  Meets(s, p)
  <1>1. s.C0 \in Int /\ s.C1 \in Int /\ s.C2 \in Int /\ s.C3 \in Int /\ s.den \in Int
    BY DEF CubicPolynomials
  <1>2. ASSUME NEW b \in Int
        PROVE  s.C0*b*b*b + s.C1*0*b*b + s.C2*0*0*b + s.C3*0*0*0 = p*s.den*b*b*b
    BY <1>1
  <1> QED BY <1>2 DEF Meets

LEMMA MeetsAtOne ==
  ASSUME NEW s \in CubicPolynomials, NEW p \in Int,
         s.C0 + s.C1 + s.C2 + s.C3 = p * s.den, u = <<1, 1>>
  PROVE  Meets(s, p)
  <1>1. s.C0 \in Int /\ s.C1 \in Int /\ s.C2 \in Int /\ s.C3 \in Int /\ s.den \in Int
    BY DEF CubicPolynomials
  <1>2. p * s.den \in Int
    BY <1>1
  <1>3. s.C0*1*1*1 + s.C1*1*1*1 + s.C2*1*1*1 + s.C3*1*1*1 = p*s.den*1*1*1
    BY <1>1, <1>2
  <1> QED BY <1>3 DEF Meets

LEMMA AnswersMeetKeys ==
  ASSUME IInv
  PROVE  SplinesMeetKeys
  <1> SUFFICES ASSUME Answered, Increasing(Key), NEW k \in KeysOf(Key, query.time)
               PROVE  IF query.kind = "rotations"
                      THEN \/ u[1] = 0 /\ SameRotation(Track[i].p, Key[k].h)
                           \/ u[1] = u[2] /\ SameRotation(Track[i].q, Key[k].h)
                      ELSE Meets(Track[i], Key[k].p)
    BY DEF SplinesMeetKeys
  <1> DEFINE t == query.time
             n == Len(Key)
  <1>1. AnswerIsRight /\ query.kind \in Splines /\ pc = "found" /\ TypeOK /\ TracksMade
    BY DEF IInv, Answered
  <1>2. t \in Int /\ query.of \in DOMAIN mAnimations /\ Spanned(Track, Key)
    BY <1>1, QueriedTrack DEF Key
  <1>3. i \in DOMAIN Track
    BY <1>1 DEF AnswerIsRight
  <1>4. Len(Track) \in Nat /\ DOMAIN Track = 1..Len(Track) /\ n \in Nat /\ DOMAIN Key = 1..n
          /\ \A l \in DOMAIN Key : Key[l].t \in Int
    BY <1>2 DEF Spanned
  <1>5. Track # Null
    BY <1>3, <1>4, EmptySeq DEF Null
  <1>6. n = Len(Track) + 3 /\ Len(Track) >= 1
    BY <1>2, <1>5 DEF Spanned
  <1>7. /\ i \in Nat \ {0} /\ i <= n - 3 /\ n >= 4
        /\ i + 1 \in 1..n /\ i + 2 \in 1..n /\ 2 \in 1..n /\ n - 1 \in 1..n
    BY <1>3, <1>4, <1>6
  <1>8. /\ Track[i].tmin = Key[i + 1].t /\ Track[i].tmax = Key[i + 2].t
        /\ Track[i].trange = Track[i].tmax - Track[i].tmin
    BY <1>2, <1>3, SpanTimes
  <1>9. /\ k \in 2..(n - 1) /\ k \in 1..n
        /\ \/ t = Key[k].t
           \/ k = 2 /\ t < Key[k].t
           \/ k = n - 1 /\ t > Key[k].t
    BY <1>4 DEF KeysOf
  <1>10. \A l, m \in 1..n : l < m => Key[l].t < Key[m].t
    BY <1>4 DEF Increasing
  <1>11. Key[k].t \in Int /\ Key[2].t \in Int /\ Key[n - 1].t \in Int
           /\ Key[i + 1].t \in Int /\ Key[i + 2].t \in Int
    BY <1>4, <1>7, <1>9
  <1>12. \/ k = i + 1 /\ u[1] = 0 /\ u[2] \in Int
         \/ k = i + 2 /\ u = <<1, 1>>
    <2>1. CASE i = 1 /\ u = <<0, 1>> /\ t <= Track[i].tmin
      <3>1. t <= Key[2].t
        BY <1>8, <2>1
      <3>2. k = 2
        <4>1. k > 2 => Key[2].t < Key[k].t
          BY <1>7, <1>9, <1>10
        <4> QED BY <1>2, <1>9, <1>11, <3>1, <4>1
      <3> QED BY <2>1, <3>2
    <2>2. CASE i = Len(Track) /\ u = <<1, 1>> /\ t >= Track[i].tmax
      <3>1. t >= Key[n - 1].t /\ i + 2 = n - 1
        BY <1>4, <1>6, <1>8, <2>2
      <3>2. k = n - 1
        <4>1. k < n - 1 => Key[k].t < Key[n - 1].t
          BY <1>7, <1>9, <1>10
        <4> QED BY <1>2, <1>7, <1>9, <1>11, <3>1, <4>1
      <3> QED BY <2>2, <3>1, <3>2
    <2>3. CASE /\ u = <<t - Track[i].tmin, Track[i].trange>>
               /\ Track[i].tmin <= t /\ t < Track[i].tmax
      <3>1. Key[i + 1].t <= t /\ t < Key[i + 2].t
        BY <1>8, <2>3
      <3>2. /\ k < i + 1 => Key[k].t < Key[i + 1].t
            /\ k > i + 2 => Key[i + 2].t < Key[k].t
            /\ i + 1 > 2 => Key[2].t < Key[i + 1].t
            /\ i + 2 < n - 1 => Key[i + 2].t < Key[n - 1].t
        BY <1>7, <1>9, <1>10
      <3>3. k = i + 1
        <4>1. ~(k < i + 1)
          <5> SUFFICES ASSUME k < i + 1
                       PROVE  FALSE
            OBVIOUS
          <5>1. Key[k].t < t
            BY <1>2, <1>11, <3>1, <3>2
          <5>2. k = n - 1
            BY <1>2, <1>9, <1>11, <5>1
          <5> QED BY <1>7, <5>2
        <4>2. ~(k = i + 2)
          BY <1>2, <1>7, <1>9, <1>11, <3>1
        <4>3. ~(k > i + 2)
          <5> SUFFICES ASSUME k > i + 2
                       PROVE  FALSE
            OBVIOUS
          <5>1. t < Key[k].t
            BY <1>2, <1>11, <3>1, <3>2
          <5>2. k = 2
            BY <1>2, <1>9, <1>11, <5>1
          <5> QED BY <1>7, <5>2
        <4> QED BY <1>7, <1>9, <4>1, <4>2, <4>3
      <3>4. t = Key[i + 1].t
        BY <1>2, <1>7, <1>9, <1>11, <3>1, <3>2, <3>3
      <3>5. t - Track[i].tmin = 0 /\ Track[i].trange \in Int
        BY <1>2, <1>8, <1>11, <3>4
      <3> QED BY <2>3, <3>3, <3>5
    <2> QED BY <1>1, <2>1, <2>2, <2>3 DEF AnswerIsRight
  <1>13. CASE query.kind = "rotations"
    <2>1. RotMade(Track, Key)
      BY <1>1, <1>2, <1>13 DEF TracksMade, Track, Key
    <2>2. Squads(Track, Key)
      BY <1>5, <2>1 DEF RotMade
    <2>3. SameRotation(Track[i].p, Key[i + 1].h) /\ SameRotation(Track[i].q, Key[i + 2].h)
      BY <1>3, <2>2 DEF Squads
    <2> QED BY <1>12, <1>13, <2>3
  <1>14. CASE query.kind # "rotations"
    <2>1. mAnimations[query.of] \in Animations /\ text[query.of] \in Texts
      <3>1. query.of \in 1..Len(mAnimations) /\ query.of \in 1..Len(text)
        BY <1>1, <1>2, LenProperties DEF TypeOK
      <3> QED BY <1>1, <3>1, ElementOfSeq DEF TypeOK
    <2>2. Track \in Seq(CubicPolynomials) /\ Key \in Seq(PositionKey) /\ PosMade(Track, Key)
      BY <1>1, <1>2, <1>14, <2>1 DEF Splines, Animations, Texts, TracksMade, Track, Key
    <2>3. Track = KB_PosInitialize(Key)
      BY <1>5, <2>2 DEF PosMade
    <2>4. i \in 1..(n - 3) /\ i \in 1..n /\ i + 3 \in 1..n /\ n >= 4
      BY <1>4, <1>7
    <2>5. /\ Key[i] \in PositionKey /\ Key[i + 1] \in PositionKey
          /\ Key[i + 2] \in PositionKey /\ Key[i + 3] \in PositionKey
      BY <1>7, <2>2, <2>4, ElementOfSeq
    <2>6. Track[i] = Polynomial(Key[i], Key[i + 1], Key[i + 2], Key[i + 3])
      BY <2>2, <2>3, <2>4, KB_PosInitializeFacts
    <2>7. /\ Track[i] \in CubicPolynomials
          /\ Track[i].C0 = Key[i + 1].p * Track[i].den
          /\ Track[i].C0 + Track[i].C1 + Track[i].C2 + Track[i].C3 = Key[i + 2].p * Track[i].den
      <3>1. IsCubicOf(Track[i], Key[i], Key[i + 1], Key[i + 2], Key[i + 3])
        BY <2>5, <2>6, PolynomialFacts
      <3> QED BY <3>1, Zenon DEF IsCubicOf
    <2>8. /\ Track[i].C0 \in Int /\ Track[i].C1 \in Int /\ Track[i].C2 \in Int
          /\ Track[i].C3 \in Int /\ Track[i].den \in Int
          /\ Key[i + 1].p \in Int /\ Key[i + 2].p \in Int
      BY <2>5, <2>7 DEF CubicPolynomials, PositionKey
    <2>9. CASE k = i + 1 /\ u[1] = 0 /\ u[2] \in Int
      <3>1. Meets(Track[i], Key[i + 1].p)
        BY <2>7, <2>8, <2>9, MeetsAtZero
      <3> QED BY <1>14, <2>9, <3>1
    <2>10. CASE k = i + 2 /\ u = <<1, 1>>
      <3>1. Meets(Track[i], Key[i + 2].p)
        BY <2>7, <2>8, <2>10, MeetsAtOne
      <3> QED BY <1>14, <2>10, <3>1
    <2> QED BY <1>12, <1>14, <2>9, <2>10
  <1> QED BY <1>13, <1>14

(* A track whose times increase answers, for the time of an inner key and  *)
(* for times outside of them, what the file says there.                    *)
THEOREM KeysMet == Spec => []SplinesMeetKeys
  BY KeyframesInvariant, AnswersMeetKeys, PTL
=============================================================================
