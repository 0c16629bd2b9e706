----------------------------- MODULE LinkProofs -----------------------------
(***************************************************************************)
(* What the dock makes of a picture and of a mode.  StripTransform, for    *)
(* every picture: the pixels that come back from the transform and the     *)
(* quantiser are those that went in, to within a bound that the levels'    *)
(* roundings add up to.  DockModes, for every set of connectors and every  *)
(* sequence of mode sets: a lit connector runs the mode asked of it, and   *)
(* its ring of pictures has room.                                          *)
(***************************************************************************)
EXTENDS StripTransform, DockModes, TLAPS

\* The provers every leaf that names none is given, and their seconds.
USE ZenonT(10), SMTT(30)

(***************************************************************************)
(* One level of the transform, there and back.                             *)
(***************************************************************************)
Block(n) == [0 .. n * n - 1 -> Int]

Places(n) == 0 .. (n \div 2) * (n \div 2) - 1

\* The first of the four samples that meet in place k of a band.
Corner(n, k) == 2 * (k \div (n \div 2)) * n + 2 * (k % (n \div 2))

LEMMA Corners ==
  ASSUME NEW n \in {2, 4, 8}, NEW k \in Places(n)
  PROVE  LET c == Corner(n, k) IN
         /\ {c, c + 1, c + n, c + n + 1} \subseteq 0 .. n * n - 1
         /\ (2 * (k \div (n \div 2)) + 1) * n + 2 * (k % (n \div 2)) = c + n
<1> DEFINE h == n \div 2
           r == k \div h
           i == k % h
<1>1. /\ h \in {1, 2, 4} /\ n = 2 * h /\ k \in 0 .. h * h - 1
  BY DEF Places
<1>2. r \in 0 .. h - 1 /\ i \in 0 .. h - 1
  <2>1. CASE h = 1
    BY <1>1, <2>1
  <2>2. CASE h = 2
    BY <1>1, <2>2
  <2>3. CASE h = 4
    BY <1>1, <2>3
  <2> QED
    BY <1>1, <2>1, <2>2, <2>3
<1> HIDE DEF h, r, i
<1>3. 2 * r * n + 2 * i \in 0 .. n * n - n - 2
  BY <1>1, <1>2
<1>4. (2 * r + 1) * n + 2 * i = 2 * r * n + 2 * i + n
  BY <1>1, <1>2
<1> QED
  BY <1>1, <1>3, <1>4 DEF Corner, h, r, i

\* What haar2d leaves in place k of its bands: the sums and differences of the
\* four samples of one square.
LEMMA HaarSquares ==
  ASSUME NEW n \in {2, 4, 8}, NEW src \in Block(n), NEW k \in Places(n)
  PROVE  LET c == Corner(n, k)
             b == Haar2d(src, n)
         IN  /\ b.ll[k] = src[c] + src[c + 1] + src[c + n] + src[c + n + 1]
             /\ b.lh[k] = src[c] + src[c + 1] - src[c + n] - src[c + n + 1]
             /\ b.hl[k] = src[c] - src[c + 1] + src[c + n] - src[c + n + 1]
             /\ b.hh[k] = src[c] - src[c + 1] - src[c + n] + src[c + n + 1]
<1> DEFINE h == n \div 2
           t == 2 * (k \div h)
           i == k % h
           b == Haar2d(src, n)
           c == Corner(n, k)
           a1 == src[t * n + 2 * i]
           a2 == src[t * n + 2 * i + 1]
           a3 == src[(t + 1) * n + 2 * i]
           a4 == src[(t + 1) * n + 2 * i + 1]
<1>1. /\ b.ll[k] = (a1 + a2) + (a3 + a4) /\ b.lh[k] = (a1 + a2) - (a3 + a4)
      /\ b.hl[k] = (a1 - a2) + (a3 - a4) /\ b.hh[k] = (a1 - a2) - (a3 - a4)
  BY Zenon DEF Haar2d, Places
<1>2. t * n + 2 * i = c /\ (t + 1) * n + 2 * i = c + n /\ {c, c + 1, c + n, c + n + 1} \subseteq 0 .. n * n - 1
  BY Corners DEF Corner
<1> HIDE DEF b, c, t, i, h
<1>3. a1 = src[c] /\ a2 = src[c + 1] /\ a3 = src[c + n] /\ a4 = src[c + n + 1]
  BY <1>2, Zenon
<1>4. a1 \in Int /\ a2 \in Int /\ a3 \in Int /\ a4 \in Int
  BY <1>2, <1>3 DEF Block
<1> HIDE DEF a1, a2, a3, a4
<1>5. /\ b.ll[k] = a1 + a2 + a3 + a4 /\ b.lh[k] = a1 + a2 - a3 - a4
      /\ b.hl[k] = a1 - a2 + a3 - a4 /\ b.hh[k] = a1 - a2 - a3 + a4
  BY <1>1, <1>4
<1> QED
  BY <1>3, <1>5, Zenon DEF b, c

\* Where sample p stands in its square.
LEMMA SquareOf ==
  ASSUME NEW n \in {2, 4, 8}, NEW p \in 0 .. n * n - 1
  PROVE  LET r == p \div n
             c == p % n
             k == (r \div 2) * (n \div 2) + c \div 2
         IN  /\ k \in Places(n)
             /\ \/ r % 2 = 0 /\ c % 2 = 0 /\ p = Corner(n, k)
                \/ r % 2 = 0 /\ c % 2 = 1 /\ p = Corner(n, k) + 1
                \/ r % 2 = 1 /\ c % 2 = 0 /\ p = Corner(n, k) + n
                \/ r % 2 = 1 /\ c % 2 = 1 /\ p = Corner(n, k) + n + 1
<1>1. CASE n = 2
  BY <1>1, SMTT(30) DEF Places, Corner
<1>2. CASE n = 4
  BY <1>2, SMTT(30) DEF Places, Corner
<1>3. CASE n = 8
  BY <1>3, SMTT(30) DEF Places, Corner
<1> QED
  BY <1>1, <1>2, <1>3

\* v is a multiple of f.
Multiple(v, f) == v \in Int /\ v % f = 0

LEMMA MultipleInt ==
  ASSUME NEW v, NEW f, Multiple(v, f)
  PROVE  v \in Int
  BY Zenon DEF Multiple

\* q is a quarter of a sum, and a multiple of f.
QuarterOf(q, sum, f) == Multiple(q, f) /\ 4 * q = sum

\* Two halvings of a sum of multiples of four lose nothing.
LEMMA Quarter ==
  ASSUME NEW m \in {1, 4, 16}, NEW a, NEW b, NEW c, NEW d,
         Multiple(a, 4 * m), Multiple(b, 4 * m), Multiple(c, 4 * m), Multiple(d, 4 * m)
  PROVE  /\ QuarterOf(((a + b) \div 2 + (c + d) \div 2) \div 2, a + b + c + d, m)
         /\ QuarterOf(((a + b) \div 2 - (c + d) \div 2) \div 2, a + b - c - d, m)
         /\ QuarterOf(((a - b) \div 2 + (c - d) \div 2) \div 2, a - b + c - d, m)
         /\ QuarterOf(((a - b) \div 2 - (c - d) \div 2) \div 2, a - b - c + d, m)
<1>1. \A v : Multiple(v, 4 * m) => \E w \in Int : v = 4 * m * w
  <2>1. \A v \in Int : v % (4 * m) = 0 => v = 4 * m * (v \div (4 * m)) /\ v \div (4 * m) \in Int
    <3>1. CASE m = 1
      BY <3>1
    <3>2. CASE m = 4
      BY <3>2
    <3>3. CASE m = 16
      BY <3>3
    <3> QED
      BY <3>1, <3>2, <3>3
  <2> QED
    BY <2>1, Zenon DEF Multiple
<1>2. PICK w \in Int : a = 4 * m * w
  BY <1>1, Zenon
<1>3. PICK x \in Int : b = 4 * m * x
  BY <1>1, Zenon
<1>4. PICK y \in Int : c = 4 * m * y
  BY <1>1, Zenon
<1>5. PICK z \in Int : d = 4 * m * z
  BY <1>1, Zenon
<1>6. CASE m = 1
  BY <1>2, <1>3, <1>4, <1>5, <1>6 DEF QuarterOf, Multiple
<1>7. CASE m = 4
  BY <1>2, <1>3, <1>4, <1>5, <1>7 DEF QuarterOf, Multiple
<1>8. CASE m = 16
  BY <1>2, <1>3, <1>4, <1>5, <1>8 DEF QuarterOf, Multiple
<1> QED
  BY <1>6, <1>7, <1>8

\* Each band of b is a band of multiples of f, and off by no more than its error.
BandsNear(b, bands, n, f, ell, elh, ehl, ehh) ==
    \A k \in Places(n) :
        /\ Multiple(b.ll[k], f) /\ Multiple(b.lh[k], f)
        /\ Multiple(b.hl[k], f) /\ Multiple(b.hh[k], f)
        /\ b.ll[k] - bands.ll[k] \in -ell .. ell /\ b.lh[k] - bands.lh[k] \in -elh .. elh
        /\ b.hl[k] - bands.hl[k] \in -ehl .. ehl /\ b.hh[k] - bands.hh[k] \in -ehh .. ehh

SamplesNear(back, src, n, f, e) ==
    \A p \in 0 .. n * n - 1 : Multiple(back[p], f) /\ back[p] - src[p] \in -e .. e

\* A level comes back: if each band is off by no more than its error, no sample
\* is off by more than a quarter of their sum.
LEMMA LevelComesBack ==
  ASSUME NEW n \in {2, 4, 8}, NEW m \in {1, 4, 16}, NEW src \in Block(n), NEW b,
         NEW ell \in Nat, NEW elh \in Nat, NEW ehl \in Nat, NEW ehh \in Nat, NEW e \in Nat,
         ell + elh + ehl + ehh <= 4 * e,
         BandsNear(b, Haar2d(src, n), n, 4 * m, ell, elh, ehl, ehh)
  PROVE  SamplesNear(Ihaar2d(b, n), src, n, m, e)
<1> SUFFICES ASSUME NEW p \in 0 .. n * n - 1
             PROVE  Multiple(Ihaar2d(b, n)[p], m) /\ Ihaar2d(b, n)[p] - src[p] \in -e .. e
  BY Zenon DEF SamplesNear
<1> DEFINE r == p \div n
           c == p % n
           k == (r \div 2) * (n \div 2) + c \div 2
           t == Corner(n, k)
           back == Ihaar2d(b, n)[p]
           Up(low, high, odd) == (IF odd = 0 THEN low + high ELSE low - high) \div 2
<1>1. back = Up(Up(b.ll[k], b.lh[k], r % 2), Up(b.hl[k], b.hh[k], r % 2), c % 2)
  BY Zenon DEF Ihaar2d
<1>2. /\ k \in Places(n)
      /\ \/ r % 2 = 0 /\ c % 2 = 0 /\ p = t
         \/ r % 2 = 0 /\ c % 2 = 1 /\ p = t + 1
         \/ r % 2 = 1 /\ c % 2 = 0 /\ p = t + n
         \/ r % 2 = 1 /\ c % 2 = 1 /\ p = t + n + 1
  BY SquareOf, Zenon
<1>3. {t, t + 1, t + n, t + n + 1} \subseteq 0 .. n * n - 1
  BY <1>2, Corners, Zenon
<1> HIDE DEF k, t, back
<1>4. src[t] \in Int /\ src[t + 1] \in Int /\ src[t + n] \in Int /\ src[t + n + 1] \in Int
  BY <1>3 DEF Block
<1> DEFINE ll == b.ll[k]
           lh == b.lh[k]
           hl == b.hl[k]
           hh == b.hh[k]
           s1 == src[t]
           s2 == src[t + 1]
           s3 == src[t + n]
           s4 == src[t + n + 1]
<1>5. Multiple(ll, 4 * m) /\ Multiple(lh, 4 * m) /\ Multiple(hl, 4 * m) /\ Multiple(hh, 4 * m)
  BY <1>2, Zenon DEF BandsNear
<1>6. /\ ll - (s1 + s2 + s3 + s4) \in -ell .. ell /\ lh - (s1 + s2 - s3 - s4) \in -elh .. elh
      /\ hl - (s1 - s2 + s3 - s4) \in -ehl .. ehl /\ hh - (s1 - s2 - s3 + s4) \in -ehh .. ehh
  <2>1. /\ ll - Haar2d(src, n).ll[k] \in -ell .. ell /\ lh - Haar2d(src, n).lh[k] \in -elh .. elh
        /\ hl - Haar2d(src, n).hl[k] \in -ehl .. ehl /\ hh - Haar2d(src, n).hh[k] \in -ehh .. ehh
    BY <1>2, Zenon DEF BandsNear
  <2>2. /\ Haar2d(src, n).ll[k] = s1 + s2 + s3 + s4 /\ Haar2d(src, n).lh[k] = s1 + s2 - s3 - s4
        /\ Haar2d(src, n).hl[k] = s1 - s2 + s3 - s4 /\ Haar2d(src, n).hh[k] = s1 - s2 - s3 + s4
    BY <1>2, HaarSquares, Zenon DEF t
  <2> QED
    BY <2>1, <2>2, Zenon
<1>7. s1 \in Int /\ s2 \in Int /\ s3 \in Int /\ s4 \in Int
  BY <1>4, Zenon
<1> HIDE DEF ll, lh, hl, hh, s1, s2, s3, s4
<1>8. ll \in Int /\ lh \in Int /\ hl \in Int /\ hh \in Int
  BY <1>5, Zenon DEF Multiple
<1>9. /\ ll + lh + hl + hh - 4 * s1 \in -(4 * e) .. 4 * e
      /\ ll + lh - hl - hh - 4 * s2 \in -(4 * e) .. 4 * e
      /\ ll - lh + hl - hh - 4 * s3 \in -(4 * e) .. 4 * e
      /\ ll - lh - hl + hh - 4 * s4 \in -(4 * e) .. 4 * e
  BY <1>6, <1>7, <1>8, SMT
<1>10. /\ QuarterOf(((ll + lh) \div 2 + (hl + hh) \div 2) \div 2, ll + lh + hl + hh, m)
      /\ QuarterOf(((ll + lh) \div 2 - (hl + hh) \div 2) \div 2, ll + lh - hl - hh, m)
      /\ QuarterOf(((ll - lh) \div 2 + (hl - hh) \div 2) \div 2, ll - lh + hl - hh, m)
      /\ QuarterOf(((ll - lh) \div 2 - (hl - hh) \div 2) \div 2, ll - lh - hl + hh, m)
  BY <1>5, Quarter, Zenon
<1>11. CASE r % 2 = 0 /\ c % 2 = 0 /\ p = t
  <2>1. back = ((ll + lh) \div 2 + (hl + hh) \div 2) \div 2 /\ src[p] = s1
    BY <1>1, <1>11 DEF ll, lh, hl, hh, s1
  <2>2. Multiple(back, m) /\ 4 * back = ll + lh + hl + hh
    BY <1>10, <2>1, Zenon DEF QuarterOf
  <2>3. back \in Int
    BY <2>2, Zenon DEF Multiple
  <2>4. back - src[p] \in -e .. e
    BY <1>7, <1>9, <1>8, <2>1, <2>2, <2>3, SMT
  <2> QED
    BY <2>2, <2>4, Zenon DEF back
<1>12. CASE r % 2 = 0 /\ c % 2 = 1 /\ p = t + 1
  <2>1. back = ((ll + lh) \div 2 - (hl + hh) \div 2) \div 2 /\ src[p] = s2
    BY <1>1, <1>12 DEF ll, lh, hl, hh, s2
  <2>2. Multiple(back, m) /\ 4 * back = ll + lh - hl - hh
    BY <1>10, <2>1, Zenon DEF QuarterOf
  <2>3. back \in Int
    BY <2>2, Zenon DEF Multiple
  <2>4. back - src[p] \in -e .. e
    BY <1>7, <1>9, <1>8, <2>1, <2>2, <2>3, SMT
  <2> QED
    BY <2>2, <2>4, Zenon DEF back
<1>13. CASE r % 2 = 1 /\ c % 2 = 0 /\ p = t + n
  <2>1. back = ((ll - lh) \div 2 + (hl - hh) \div 2) \div 2 /\ src[p] = s3
    BY <1>1, <1>13 DEF ll, lh, hl, hh, s3
  <2>2. Multiple(back, m) /\ 4 * back = ll - lh + hl - hh
    BY <1>10, <2>1, Zenon DEF QuarterOf
  <2>3. back \in Int
    BY <2>2, Zenon DEF Multiple
  <2>4. back - src[p] \in -e .. e
    BY <1>7, <1>9, <1>8, <2>1, <2>2, <2>3, SMT
  <2> QED
    BY <2>2, <2>4, Zenon DEF back
<1>14. CASE r % 2 = 1 /\ c % 2 = 1 /\ p = t + n + 1
  <2>1. back = ((ll - lh) \div 2 - (hl - hh) \div 2) \div 2 /\ src[p] = s4
    BY <1>1, <1>14 DEF ll, lh, hl, hh, s4
  <2>2. Multiple(back, m) /\ 4 * back = ll - lh - hl + hh
    BY <1>10, <2>1, Zenon DEF QuarterOf
  <2>3. back \in Int
    BY <2>2, Zenon DEF Multiple
  <2>4. back - src[p] \in -e .. e
    BY <1>7, <1>9, <1>8, <2>1, <2>2, <2>3, SMT
  <2> QED
    BY <2>2, <2>4, Zenon DEF back
<1> QED
  BY <1>2, <1>11, <1>12, <1>13, <1>14, Zenon

-----------------------------------------------------------------------------
(* Three levels.                                                           *)

\* The bands of one level, function by function.
LEMMA Bands ==
  ASSUME NEW n \in {2, 4, 8}, NEW src \in Block(n),
         \A p \in 0 .. n * n - 1 : Multiple(src[p], 64)
  PROVE  LET b == Haar2d(src, n) IN
         /\ b.ll \in [Places(n) -> Int]
         /\ \A k \in Places(n) : /\ Multiple(b.ll[k], 64) /\ Multiple(b.lh[k], 64)
                                 /\ Multiple(b.hl[k], 64) /\ Multiple(b.hh[k], 64)
<1> DEFINE b == Haar2d(src, n)
<1>1. ASSUME NEW k \in Places(n)
      PROVE  /\ Multiple(b.ll[k], 64) /\ Multiple(b.lh[k], 64)
             /\ Multiple(b.hl[k], 64) /\ Multiple(b.hh[k], 64)
  <2> DEFINE c == Corner(n, k)
             a1 == src[c]
             a2 == src[c + 1]
             a3 == src[c + n]
             a4 == src[c + n + 1]
  <2>1. {c, c + 1, c + n, c + n + 1} \subseteq 0 .. n * n - 1
    BY Corners, Zenon
  <2>2. /\ b.ll[k] = a1 + a2 + a3 + a4 /\ b.lh[k] = a1 + a2 - a3 - a4
        /\ b.hl[k] = a1 - a2 + a3 - a4 /\ b.hh[k] = a1 - a2 - a3 + a4
    BY HaarSquares, Zenon
  <2> HIDE DEF c, b
  <2>3. Multiple(a1, 64) /\ Multiple(a2, 64) /\ Multiple(a3, 64) /\ Multiple(a4, 64)
    BY <2>1, Zenon
  <2> HIDE DEF a1, a2, a3, a4
  <2> QED
    BY <2>2, <2>3, SMT DEF Multiple
<1>2. b.ll = [k \in Places(n) |-> b.ll[k]]
  BY Zenon DEF Haar2d, Places
<1> HIDE DEF b
<1>3. \A k \in Places(n) : b.ll[k] \in Int
  BY <1>1, Zenon DEF Multiple
<1>4. b.ll \in [Places(n) -> Int]
  BY <1>2, <1>3, Zenon
<1> QED
  BY <1>1, <1>4, Zenon DEF b

LEMMA Unscanned ==
  ASSUME NEW k \in 0 .. 15
  PROVE  UNSCAN[k] \in 0 .. 15 /\ SCAN4_MORTON[UNSCAN[k] + 1] = k
<1>1. \E p \in 0 .. 15 : SCAN4_MORTON[p + 1] = k
  <2>1. /\ SCAN4_MORTON[0 + 1] = 0 /\ SCAN4_MORTON[4 + 1] = 1 /\ SCAN4_MORTON[1 + 1] = 2
        /\ SCAN4_MORTON[5 + 1] = 3 /\ SCAN4_MORTON[8 + 1] = 4 /\ SCAN4_MORTON[12 + 1] = 5
        /\ SCAN4_MORTON[9 + 1] = 6 /\ SCAN4_MORTON[13 + 1] = 7 /\ SCAN4_MORTON[2 + 1] = 8
        /\ SCAN4_MORTON[6 + 1] = 9 /\ SCAN4_MORTON[3 + 1] = 10 /\ SCAN4_MORTON[7 + 1] = 11
        /\ SCAN4_MORTON[10 + 1] = 12 /\ SCAN4_MORTON[14 + 1] = 13 /\ SCAN4_MORTON[11 + 1] = 14
        /\ SCAN4_MORTON[15 + 1] = 15
    BY SMT DEF SCAN4_MORTON
  <2> QED
    BY <2>1, SMT
<1>2. UNSCAN[k] = CHOOSE p \in 0 .. 15 : SCAN4_MORTON[p + 1] = k
  BY Zenon DEF UNSCAN
<1> QED
  BY <1>1, <1>2, Zenon

\* Where each band stands in what is sent.
InOrder(t, one, two, three) ==
    /\ t[0] = three.ll[0] \div 64 /\ t[1] = three.hl[0] \div 64
    /\ t[2] = three.lh[0] \div 64 /\ t[3] = three.hh[0] \div 64
    /\ \A k \in 0 .. 3 : /\ t[4 + k] = two.hl[k] \div 64
                         /\ t[8 + k] = two.lh[k] \div 64
                         /\ t[12 + k] = two.hh[k] \div 64
    /\ \A k \in 0 .. 15 : LET at == SCAN4_MORTON[k + 1] IN
                         /\ t[16 + k] = one.hl[at] \div 64
                         /\ t[32 + k] = one.lh[at] \div 64
                         /\ t[48 + k] = one.hh[at] \div 64

LEMMA LaidOut ==
  ASSUME NEW one, NEW two, NEW three
  PROVE  InOrder(Layout(one, two, three), one, two, three)
<1> DEFINE t == Layout(one, two, three)
           Raw(i) ==
             CASE i < 4  -> <<three.ll, three.hl, three.lh, three.hh>>[i + 1][0]
               [] i \in 4 .. 15 -> <<two.hl, two.lh, two.hh>>[i \div 4][i % 4]
               [] i > 15 -> <<one.hl, one.lh, one.hh>>[i \div 16][SCAN4_MORTON[(i % 16) + 1]]
<1>1. \A i \in 0 .. 63 : t[i] = Raw(i) \div 64
  <2>1. 0 .. COEFFS - 1 = 0 .. 63
    BY SMT DEF COEFFS
  <2>2. \A i \in 0 .. COEFFS - 1 : t[i] = Raw(i) \div 64
    BY Zenon DEF Layout
  <2> QED
    BY <2>1, <2>2, Zenon
<1> HIDE DEF t
<1>2. /\ Raw(0) = three.ll[0] /\ Raw(1) = three.hl[0] /\ Raw(2) = three.lh[0] /\ Raw(3) = three.hh[0]
  BY SMT
<1>3. ASSUME NEW k \in 0 .. 3
      PROVE  Raw(4 + k) = two.hl[k] /\ Raw(8 + k) = two.lh[k] /\ Raw(12 + k) = two.hh[k]
  <2>1. /\ (4 + k) \div 4 = 1 /\ (8 + k) \div 4 = 2 /\ (12 + k) \div 4 = 3
        /\ (4 + k) % 4 = k /\ (8 + k) % 4 = k /\ (12 + k) % 4 = k
    BY SMTT(30)
  <2> QED
    BY <2>1, SMT
<1>4. ASSUME NEW k \in 0 .. 15
      PROVE  LET at == SCAN4_MORTON[k + 1]
             IN  Raw(16 + k) = one.hl[at] /\ Raw(32 + k) = one.lh[at] /\ Raw(48 + k) = one.hh[at]
  <2>1. /\ (16 + k) \div 16 = 1 /\ (32 + k) \div 16 = 2 /\ (48 + k) \div 16 = 3
        /\ (16 + k) % 16 = k /\ (32 + k) % 16 = k /\ (48 + k) % 16 = k
    BY SMT
  <2> QED
    BY <2>1, SMT
<1> HIDE DEF Raw
<1>5. /\ t[0] = Raw(0) \div 64 /\ t[1] = Raw(1) \div 64 /\ t[2] = Raw(2) \div 64 /\ t[3] = Raw(3) \div 64
  BY <1>1, SMT
<1>6. \A k \in 0 .. 3 : /\ t[4 + k] = Raw(4 + k) \div 64 /\ t[8 + k] = Raw(8 + k) \div 64
                        /\ t[12 + k] = Raw(12 + k) \div 64
  <2>1. \A k \in 0 .. 3 : 4 + k \in 0 .. 63 /\ 8 + k \in 0 .. 63 /\ 12 + k \in 0 .. 63
    BY SMT
  <2> QED
    BY <1>1, <2>1, Zenon
<1>7. \A k \in 0 .. 15 : /\ t[16 + k] = Raw(16 + k) \div 64 /\ t[32 + k] = Raw(32 + k) \div 64
                         /\ t[48 + k] = Raw(48 + k) \div 64
  <2>1. \A k \in 0 .. 15 : 16 + k \in 0 .. 63 /\ 32 + k \in 0 .. 63 /\ 48 + k \in 0 .. 63
    BY SMT
  <2> QED
    BY <1>1, <2>1, Zenon
<1>8. /\ t[0] = three.ll[0] \div 64 /\ t[1] = three.hl[0] \div 64
      /\ t[2] = three.lh[0] \div 64 /\ t[3] = three.hh[0] \div 64
  BY <1>2, <1>5, Zenon
<1>9. \A k \in 0 .. 3 : /\ t[4 + k] = two.hl[k] \div 64 /\ t[8 + k] = two.lh[k] \div 64
                        /\ t[12 + k] = two.hh[k] \div 64
  BY <1>3, <1>6, ZenonT(40)
<1>10. ASSUME NEW k \in 0 .. 15
       PROVE  LET at == SCAN4_MORTON[k + 1] IN
              /\ t[16 + k] = one.hl[at] \div 64 /\ t[32 + k] = one.lh[at] \div 64
              /\ t[48 + k] = one.hh[at] \div 64
  <2> DEFINE at == SCAN4_MORTON[k + 1]
  <2>1. /\ t[16 + k] = Raw(16 + k) \div 64 /\ t[32 + k] = Raw(32 + k) \div 64
        /\ t[48 + k] = Raw(48 + k) \div 64
    BY <1>7, Zenon
  <2>2. Raw(16 + k) = one.hl[at] /\ Raw(32 + k) = one.lh[at] /\ Raw(48 + k) = one.hh[at]
    BY <1>4, Zenon
  <2> QED
    BY <2>1, <2>2, Zenon
<1> QED
  BY <1>8, <1>9, <1>10, Zenon DEF t, InOrder

\* The three levels of a block.
One(block) == Haar2d(block, 8)
Two(block) == Haar2d(One(block).ll, 4)
Three(block) == Haar2d(Two(block).ll, 2)

\* A block of whole samples, in sixty-fourths.
Sampled(block) == block \in Block(8) /\ \A p \in 0 .. 63 : Multiple(block[p], 64)

LEMMA Levels ==
  ASSUME NEW block, Sampled(block)
  PROVE  /\ One(block).ll \in Block(4) /\ Two(block).ll \in Block(2)
         /\ \A k \in 0 .. 15 : /\ Multiple(One(block).hl[k], 64) /\ Multiple(One(block).lh[k], 64)
                               /\ Multiple(One(block).hh[k], 64)
         /\ \A k \in 0 .. 3 : /\ Multiple(Two(block).hl[k], 64) /\ Multiple(Two(block).lh[k], 64)
                              /\ Multiple(Two(block).hh[k], 64)
         /\ /\ Multiple(Three(block).ll[0], 64) /\ Multiple(Three(block).hl[0], 64)
            /\ Multiple(Three(block).lh[0], 64) /\ Multiple(Three(block).hh[0], 64)
<1>1. Places(8) = 0 .. 15 /\ Places(4) = 0 .. 3 /\ Places(2) = 0 .. 0 /\ 0 \in 0 .. 0
  BY SMT DEF Places
<1>2. 8 * 8 - 1 = 63 /\ 4 * 4 - 1 = 15 /\ 2 * 2 - 1 = 3
  BY SMT
<1>3. Block(4) = [0 .. 15 -> Int] /\ Block(2) = [0 .. 3 -> Int]
  BY <1>2, Zenon DEF Block
<1>4. /\ One(block).ll \in Block(4)
      /\ \A k \in 0 .. 15 : /\ Multiple(One(block).ll[k], 64) /\ Multiple(One(block).lh[k], 64)
                            /\ Multiple(One(block).hl[k], 64) /\ Multiple(One(block).hh[k], 64)
  BY <1>1, <1>2, <1>3, Bands, ZenonT(40) DEF One, Sampled
<1>5. /\ Two(block).ll \in Block(2)
      /\ \A k \in 0 .. 3 : /\ Multiple(Two(block).ll[k], 64) /\ Multiple(Two(block).lh[k], 64)
                           /\ Multiple(Two(block).hl[k], 64) /\ Multiple(Two(block).hh[k], 64)
  BY <1>1, <1>2, <1>3, <1>4, Bands, ZenonT(40) DEF Two
<1>6. /\ Multiple(Three(block).ll[0], 64) /\ Multiple(Three(block).lh[0], 64)
      /\ Multiple(Three(block).hl[0], 64) /\ Multiple(Three(block).hh[0], 64)
  BY <1>1, <1>2, <1>5, Bands, ZenonT(40) DEF Three
<1> QED
  BY <1>4, <1>5, <1>6, Zenon

\* v is x in sixty-fourths.
Scaled(x, v) == x \in Int /\ 64 * x = v

\* What is sent is every coefficient, a sixty-fourth of it, and loses nothing.
LEMMA Sent ==
  ASSUME NEW block, Sampled(block)
  PROVE  LET t == Transform(block)
         IN  /\ Scaled(t[0], Three(block).ll[0]) /\ Scaled(t[1], Three(block).hl[0])
             /\ Scaled(t[2], Three(block).lh[0]) /\ Scaled(t[3], Three(block).hh[0])
             /\ \A k \in 0 .. 3 : /\ Scaled(t[4 + k], Two(block).hl[k]) /\ Scaled(t[8 + k], Two(block).lh[k])
                                  /\ Scaled(t[12 + k], Two(block).hh[k])
             /\ \A k \in 0 .. 15 : /\ Scaled(t[16 + UNSCAN[k]], One(block).hl[k])
                                   /\ Scaled(t[32 + UNSCAN[k]], One(block).lh[k])
                                   /\ Scaled(t[48 + UNSCAN[k]], One(block).hh[k])
<1> DEFINE t == Transform(block)
<1>1. t = Layout(One(block), Two(block), Three(block))
  BY Zenon DEF Transform, SecondLevel, ThirdLevel, One, Two, Three
<1> HIDE DEF t
<1>7. InOrder(t, One(block), Two(block), Three(block))
  BY <1>1, LaidOut, Zenon
<1>2. \A v, x : Multiple(v, 64) /\ x = v \div 64 => Scaled(x, v)
  <2>1. \A v \in Int : v % 64 = 0 => v \div 64 \in Int /\ 64 * (v \div 64) = v
    BY SMT
  <2> QED
    BY <2>1, Zenon DEF Multiple, Scaled
<1>3. /\ Scaled(t[0], Three(block).ll[0]) /\ Scaled(t[1], Three(block).hl[0])
      /\ Scaled(t[2], Three(block).lh[0]) /\ Scaled(t[3], Three(block).hh[0])
  <2>1. /\ t[0] = Three(block).ll[0] \div 64 /\ t[1] = Three(block).hl[0] \div 64
        /\ t[2] = Three(block).lh[0] \div 64 /\ t[3] = Three(block).hh[0] \div 64
    BY <1>7, Zenon DEF InOrder
  <2>2. /\ Multiple(Three(block).ll[0], 64) /\ Multiple(Three(block).hl[0], 64)
        /\ Multiple(Three(block).lh[0], 64) /\ Multiple(Three(block).hh[0], 64)
    BY Levels, Zenon
  <2> QED
    BY <1>2, <2>1, <2>2, Zenon
<1>5. ASSUME NEW k \in 0 .. 3
      PROVE  Scaled(t[4 + k], Two(block).hl[k]) /\ Scaled(t[8 + k], Two(block).lh[k]) /\ Scaled(t[12 + k], Two(block).hh[k])
  <2>1. /\ t[4 + k] = Two(block).hl[k] \div 64 /\ t[8 + k] = Two(block).lh[k] \div 64
        /\ t[12 + k] = Two(block).hh[k] \div 64
    BY <1>7, Zenon DEF InOrder
  <2>2. /\ Multiple(Two(block).hl[k], 64) /\ Multiple(Two(block).lh[k], 64)
        /\ Multiple(Two(block).hh[k], 64)
    BY Levels, Zenon
  <2> QED
    BY <1>2, <2>1, <2>2, Zenon
<1>6. ASSUME NEW k \in 0 .. 15
      PROVE  /\ Scaled(t[16 + UNSCAN[k]], One(block).hl[k]) /\ Scaled(t[32 + UNSCAN[k]], One(block).lh[k])
             /\ Scaled(t[48 + UNSCAN[k]], One(block).hh[k])
  <2> DEFINE u == UNSCAN[k]
  <2>1. u \in 0 .. 15 /\ SCAN4_MORTON[u + 1] = k
    BY Unscanned, Zenon
  <2> HIDE DEF u
  <2>2. /\ t[16 + u] = One(block).hl[k] \div 64 /\ t[32 + u] = One(block).lh[k] \div 64
        /\ t[48 + u] = One(block).hh[k] \div 64
    BY <1>7, <2>1, Zenon DEF InOrder
  <2>3. /\ Multiple(One(block).hl[k], 64) /\ Multiple(One(block).lh[k], 64)
        /\ Multiple(One(block).hh[k], 64)
    BY Levels, Zenon
  <2> QED
    BY <1>2, <2>2, <2>3, Zenon DEF u
<1> QED
  BY <1>3, <1>5, <1>6, Zenon DEF t

\* x is no further than e from v.
Near(x, v, e) == x \in Int /\ x - v \in -e .. e

\* y stands for v, off by no more than e, and can be halved on each of the levels.
Stands(y, v, e) ==
    /\ Multiple(y, 4 * 16) /\ Multiple(y, 4 * 4) /\ Multiple(y, 4 * 1)
    /\ y - v \in -e .. e

\* What comes back of a coefficient, and how far off it is in sixty-fourths.
LEMMA ScaledBack ==
  ASSUME NEW x, NEW t, NEW v, NEW e \in Nat, Near(x, t, e), Scaled(t, v)
  PROVE  Stands(64 * x, v, 64 * e)
<1>1. x \in Int /\ t \in Int /\ v \in Int /\ x - t \in -e .. e /\ v = 64 * t
  BY SMT DEF Near, Scaled
<1>2. (64 * x) % 64 = 0 /\ (64 * x) % 16 = 0 /\ (64 * x) % 4 = 0
  BY <1>1, SMT
<1>3. 64 * x - v \in -(64 * e) .. 64 * e
  BY <1>1, SMT
<1> QED
  BY <1>1, <1>2, <1>3, SMT DEF Multiple, Stands

\* The bands of the coefficients d, as itransform takes them.
Band(d, from, n) == [k \in 0 .. n - 1 |-> 64 * d[from + k]]
Unmorton(d, from) == [k \in 0 .. 15 |-> 64 * d[from + UNSCAN[k]]]

Third(d) == [ll |-> Band(d, 0, 1), hl |-> Band(d, 1, 1), lh |-> Band(d, 2, 1), hh |-> Band(d, 3, 1)]

Second(d) == [ll |-> Ihaar2d(Third(d), 2), hl |-> Band(d, 4, 4), lh |-> Band(d, 8, 4), hh |-> Band(d, 12, 4)]

First(d) == [ll |-> Ihaar2d(Second(d), 4), hl |-> Unmorton(d, 16), lh |-> Unmorton(d, 32),
             hh |-> Unmorton(d, 48)]

\* The third level of what comes back.
LEMMA ThirdComesBack ==
  ASSUME NEW block, Sampled(block), NEW d, NEW e \in Nat,
         NEW e0 \in Nat, NEW e1 \in Nat, NEW e2 \in Nat, NEW e3 \in Nat,
         64 * e0 + 64 * e2 + 64 * e1 + 64 * e3 <= 4 * e,
         Near(d[0], Transform(block)[0], e0), Near(d[1], Transform(block)[1], e1),
         Near(d[2], Transform(block)[2], e2), Near(d[3], Transform(block)[3], e3)
  PROVE  SamplesNear(Ihaar2d(Third(d), 2), Two(block).ll, 2, 16, e)
<1> DEFINE b == Third(d)
<1>1. b.ll[0] = 64 * d[0] /\ b.hl[0] = 64 * d[1] /\ b.lh[0] = 64 * d[2] /\ b.hh[0] = 64 * d[3]
  <2>1. 0 \in 0 .. 1 - 1 /\ 0 + 0 = 0 /\ 1 + 0 = 1 /\ 2 + 0 = 2 /\ 3 + 0 = 3
    BY SMT
  <2> QED
    BY <2>1, Zenon DEF Third, Band
<1> HIDE DEF b
<1>2. /\ Scaled(Transform(block)[0], Three(block).ll[0]) /\ Scaled(Transform(block)[1], Three(block).hl[0])
      /\ Scaled(Transform(block)[2], Three(block).lh[0]) /\ Scaled(Transform(block)[3], Three(block).hh[0])
  BY Sent, Zenon
<1>3. Stands(b.ll[0], Three(block).ll[0], 64 * e0)
  <2>1. Stands(64 * d[0], Three(block).ll[0], 64 * e0)
    BY <1>2, ScaledBack, Zenon
  <2> QED
    BY <1>1, <2>1, Zenon
<1>4. Stands(b.lh[0], Three(block).lh[0], 64 * e2)
  <2>1. Stands(64 * d[2], Three(block).lh[0], 64 * e2)
    BY <1>2, ScaledBack, Zenon
  <2> QED
    BY <1>1, <2>1, Zenon
<1>5. Stands(b.hl[0], Three(block).hl[0], 64 * e1)
  <2>1. Stands(64 * d[1], Three(block).hl[0], 64 * e1)
    BY <1>2, ScaledBack, Zenon
  <2> QED
    BY <1>1, <2>1, Zenon
<1>6. Stands(b.hh[0], Three(block).hh[0], 64 * e3)
  <2>1. Stands(64 * d[3], Three(block).hh[0], 64 * e3)
    BY <1>2, ScaledBack, Zenon
  <2> QED
    BY <1>1, <2>1, Zenon
<1>7. Places(2) = {0}
  BY SMT DEF Places
<1>8. BandsNear(b, Haar2d(Two(block).ll, 2), 2, 4 * 16, 64 * e0, 64 * e2, 64 * e1, 64 * e3)
  BY <1>3, <1>4, <1>5, <1>6, <1>7, Zenon DEF BandsNear, Stands, Three
<1>9. 64 * e0 \in Nat /\ 64 * e1 \in Nat /\ 64 * e2 \in Nat /\ 64 * e3 \in Nat
  BY SMT
<1> QED
  BY <1>8, <1>9, Levels, LevelComesBack, ZenonT(40) DEF b

\* The second level, from the third.
LEMMA SecondComesBack ==
  ASSUME NEW block, Sampled(block), NEW d, NEW e \in Nat,
         NEW ell \in Nat, NEW e1 \in Nat, NEW e2 \in Nat, NEW e3 \in Nat,
         ell + 64 * e2 + 64 * e1 + 64 * e3 <= 4 * e,
         SamplesNear(Ihaar2d(Third(d), 2), Two(block).ll, 2, 16, ell),
         \A k \in 0 .. 3 : /\ Near(d[4 + k], Transform(block)[4 + k], e1)
                           /\ Near(d[8 + k], Transform(block)[8 + k], e2)
                           /\ Near(d[12 + k], Transform(block)[12 + k], e3)
  PROVE  SamplesNear(Ihaar2d(Second(d), 4), One(block).ll, 4, 4, e)
<1> DEFINE b == Second(d)
<1>1. Places(4) = 0 .. 3 /\ 0 .. 2 * 2 - 1 = 0 .. 3
  BY SMT DEF Places
<1>2. ASSUME NEW k \in 0 .. 3
      PROVE  /\ Multiple(b.ll[k], 4 * 4) /\ b.ll[k] - Two(block).ll[k] \in -ell .. ell
             /\ Stands(b.lh[k], Two(block).lh[k], 64 * e2)
             /\ Stands(b.hl[k], Two(block).hl[k], 64 * e1)
             /\ Stands(b.hh[k], Two(block).hh[k], 64 * e3)
  <2> DEFINE u == k
  <2>1. u \in 0 .. 3
    BY Zenon
  <2>2. 0 .. 4 - 1 = 0 .. 3
    BY SMT
  <2>3. b.lh[k] = 64 * d[8 + u] /\ b.hl[k] = 64 * d[4 + u] /\ b.hh[k] = 64 * d[12 + u]
    BY <2>2, Zenon DEF Second, Band
  <2>4. b.ll[k] = Ihaar2d(Third(d), 2)[k]
    BY Zenon DEF Second
  <2>5. /\ Scaled(Transform(block)[4 + u], Two(block).hl[k])
        /\ Scaled(Transform(block)[8 + u], Two(block).lh[k])
        /\ Scaled(Transform(block)[12 + u], Two(block).hh[k])
    BY Sent, Zenon
  <2> HIDE DEF u, b
  <2>6. /\ Near(d[4 + u], Transform(block)[4 + u], e1)
        /\ Near(d[8 + u], Transform(block)[8 + u], e2)
        /\ Near(d[12 + u], Transform(block)[12 + u], e3)
    BY <2>1, Zenon
  <2>7. Stands(64 * d[4 + u], Two(block).hl[k], 64 * e1)
    BY <2>5, <2>6, ScaledBack, Zenon
  <2>8. Stands(64 * d[8 + u], Two(block).lh[k], 64 * e2)
    BY <2>5, <2>6, ScaledBack, Zenon
  <2>9. Stands(64 * d[12 + u], Two(block).hh[k], 64 * e3)
    BY <2>5, <2>6, ScaledBack, Zenon
  <2>10. Multiple(b.ll[k], 16) /\ b.ll[k] - Two(block).ll[k] \in -ell .. ell
    BY <1>1, <2>4, Zenon DEF SamplesNear
  <2>11. 4 * 4 = 16
    BY SMT
  <2> QED
    BY <2>3, <2>7, <2>8, <2>9, <2>10, <2>11, Zenon
<1> HIDE DEF b
<1>3. BandsNear(b, Two(block), 4, 4 * 4, ell, 64 * e2, 64 * e1, 64 * e3)
  BY <1>1, <1>2, ZenonT(40) DEF BandsNear, Stands
<1>4. BandsNear(b, Haar2d(One(block).ll, 4), 4, 4 * 4, ell, 64 * e2, 64 * e1, 64 * e3)
  BY <1>3, Zenon DEF Two
<1>5. 64 * e1 \in Nat /\ 64 * e2 \in Nat /\ 64 * e3 \in Nat
  BY SMT
<1>6. One(block).ll \in Block(4)
  BY Levels, Zenon DEF Sampled
<1> QED
  BY <1>4, <1>5, <1>6, LevelComesBack, Zenon DEF b

\* The samples, from the second.
LEMMA FirstComesBack ==
  ASSUME NEW block, Sampled(block), NEW d, NEW e \in Nat,
         NEW ell \in Nat, NEW e1 \in Nat, NEW e2 \in Nat, NEW e3 \in Nat,
         ell + 64 * e2 + 64 * e1 + 64 * e3 <= 4 * e,
         SamplesNear(Ihaar2d(Second(d), 4), One(block).ll, 4, 4, ell),
         \A k \in 0 .. 15 : /\ Near(d[16 + k], Transform(block)[16 + k], e1)
                           /\ Near(d[32 + k], Transform(block)[32 + k], e2)
                           /\ Near(d[48 + k], Transform(block)[48 + k], e3)
  PROVE  SamplesNear(Ihaar2d(First(d), 8), block, 8, 1, e)
<1> DEFINE b == First(d)
<1>1. Places(8) = 0 .. 15 /\ 0 .. 4 * 4 - 1 = 0 .. 15
  BY SMT DEF Places
<1>2. ASSUME NEW k \in 0 .. 15
      PROVE  /\ Multiple(b.ll[k], 4 * 1) /\ b.ll[k] - One(block).ll[k] \in -ell .. ell
             /\ Stands(b.lh[k], One(block).lh[k], 64 * e2)
             /\ Stands(b.hl[k], One(block).hl[k], 64 * e1)
             /\ Stands(b.hh[k], One(block).hh[k], 64 * e3)
  <2> DEFINE u == UNSCAN[k]
  <2>1. u \in 0 .. 15
    BY Unscanned, Zenon
  <2>3. b.lh[k] = 64 * d[32 + u] /\ b.hl[k] = 64 * d[16 + u] /\ b.hh[k] = 64 * d[48 + u]
    BY Zenon DEF First, Unmorton
  <2>4. b.ll[k] = Ihaar2d(Second(d), 4)[k]
    BY Zenon DEF First
  <2>5. /\ Scaled(Transform(block)[16 + u], One(block).hl[k])
        /\ Scaled(Transform(block)[32 + u], One(block).lh[k])
        /\ Scaled(Transform(block)[48 + u], One(block).hh[k])
    BY Sent, Zenon
  <2> HIDE DEF u, b
  <2>6. /\ Near(d[16 + u], Transform(block)[16 + u], e1)
        /\ Near(d[32 + u], Transform(block)[32 + u], e2)
        /\ Near(d[48 + u], Transform(block)[48 + u], e3)
    BY <2>1, Zenon
  <2>7. Stands(64 * d[16 + u], One(block).hl[k], 64 * e1)
    BY <2>5, <2>6, ScaledBack, Zenon
  <2>8. Stands(64 * d[32 + u], One(block).lh[k], 64 * e2)
    BY <2>5, <2>6, ScaledBack, Zenon
  <2>9. Stands(64 * d[48 + u], One(block).hh[k], 64 * e3)
    BY <2>5, <2>6, ScaledBack, Zenon
  <2>10. Multiple(b.ll[k], 4) /\ b.ll[k] - One(block).ll[k] \in -ell .. ell
    BY <1>1, <2>4, Zenon DEF SamplesNear
  <2>11. 4 * 1 = 4
    BY SMT
  <2> QED
    BY <2>3, <2>7, <2>8, <2>9, <2>10, <2>11, Zenon
<1> HIDE DEF b
<1>3. BandsNear(b, One(block), 8, 4 * 1, ell, 64 * e2, 64 * e1, 64 * e3)
  BY <1>1, <1>2, ZenonT(40) DEF BandsNear, Stands
<1>4. BandsNear(b, Haar2d(block, 8), 8, 4 * 1, ell, 64 * e2, 64 * e1, 64 * e3)
  BY <1>3, Zenon DEF One
<1>5. 64 * e1 \in Nat /\ 64 * e2 \in Nat /\ 64 * e3 \in Nat
  BY SMT
<1>6. block \in Block(8)
  BY Levels, Zenon DEF Sampled
<1> QED
  BY <1>4, <1>5, <1>6, LevelComesBack, Zenon DEF b

-----------------------------------------------------------------------------
(* The quantiser.                                                          *)

LEMMA Rounded ==
  ASSUME NEW c \in Int, NEW s \in {4, 8, 16, 32, 64}
  PROVE  LET q == (c + s \div 2) \div s IN q \in Int /\ Near(q * s, c, s \div 2)
<1>1. CASE s = 4
  BY <1>1, SMT DEF Near
<1>2. CASE s = 8
  BY <1>2, SMT DEF Near
<1>3. CASE s = 16
  BY <1>3, SMT DEF Near
<1>4. CASE s = 32
  BY <1>4, SMT DEF Near
<1>5. CASE s = 64
  BY <1>5, SMT DEF Near
<1> QED
  BY <1>1, <1>2, <1>3, <1>4, <1>5, Zenon

\* The steps the dock was told are those the encoder divides by.
ChromaStep(i) == IF i = 0 THEN 64 ELSE ChromaAcStep(i)

LumaStep(i) == IF i = 0 THEN 16 ELSE StepBias(i).step

LEMMA StepsAgree ==
  ASSUME NEW i \in 0 .. 63
  PROVE  /\ DockSteps["cr"][i] = ChromaStep(i) /\ DockSteps["cb"][i] = ChromaStep(i)
         /\ DockSteps["y"][i] = LumaStep(i)
<1> DEFINE at == StepsAt(i)
<1>1. 0 .. COEFFS - 1 = 0 .. 63
  BY SMT DEF COEFFS
<1>2. /\ DockSteps["cr"][i] = StepOf(BuildConfig("Wide", FALSE), "cr", i)
      /\ DockSteps["cb"][i] = StepOf(BuildConfig("Wide", FALSE), "cb", i)
      /\ DockSteps["y"][i] = StepOf(BuildConfig("Wide", FALSE), "y", i)
  BY <1>1, Zenon DEF DockSteps
<1>3. /\ StepOf(BuildConfig("Wide", FALSE), "cr", i) = QUANT_TABLE[at + 1]
      /\ StepOf(BuildConfig("Wide", FALSE), "cb", i) = QUANT_TABLE[at + 2]
      /\ StepOf(BuildConfig("Wide", FALSE), "y", i) = QUANT_TABLE[at + 3]
  BY SMT DEF StepOf, BuildConfig
<1>4. /\ QUANT_TABLE[at + 1] = ChromaStep(i) /\ QUANT_TABLE[at + 2] = ChromaStep(i)
      /\ QUANT_TABLE[at + 3] = LumaStep(i)
  <2>1. CASE i \in 0 .. 3
    <3>1. at = 4 + 3 * i
      BY <2>1, SMT DEF StepsAt
    <3> HIDE DEF at
    <3> QED
      BY <2>1, <3>1, SMT DEF QUANT_TABLE, ChromaStep, ChromaAcStep, LumaStep, StepBias
  <2>2. CASE i \in 4 .. 7
    <3>1. at = 19
      BY <2>2, SMT DEF StepsAt
    <3> HIDE DEF at
    <3> QED
      BY <2>2, <3>1, SMT DEF QUANT_TABLE, ChromaStep, ChromaAcStep, LumaStep, StepBias
  <2>3. CASE i \in 8 .. 11
    <3>1. at = 22
      BY <2>3, SMT DEF StepsAt
    <3> HIDE DEF at
    <3> QED
      BY <2>3, <3>1, SMT DEF QUANT_TABLE, ChromaStep, ChromaAcStep, LumaStep, StepBias
  <2>4. CASE i \in 12 .. 15
    <3>1. at = 25
      BY <2>4, SMT DEF StepsAt
    <3> HIDE DEF at
    <3> QED
      BY <2>4, <3>1, SMT DEF QUANT_TABLE, ChromaStep, ChromaAcStep, LumaStep, StepBias
  <2>5. CASE i \in 16 .. 31
    <3>1. at = 31
      BY <2>5, SMT DEF StepsAt
    <3> HIDE DEF at
    <3> QED
      BY <2>5, <3>1, SMT DEF QUANT_TABLE, ChromaStep, ChromaAcStep, LumaStep, StepBias
  <2>6. CASE i \in 32 .. 47
    <3>1. at = 34
      BY <2>6, SMT DEF StepsAt
    <3> HIDE DEF at
    <3> QED
      BY <2>6, <3>1, SMT DEF QUANT_TABLE, ChromaStep, ChromaAcStep, LumaStep, StepBias
  <2>7. CASE i \in 48 .. 63
    <3>1. at = 37
      BY <2>7, SMT DEF StepsAt
    <3> HIDE DEF at
    <3> QED
      BY <2>7, <3>1, SMT DEF QUANT_TABLE, ChromaStep, ChromaAcStep, LumaStep, StepBias
  <2> HIDE DEF at
  <2> QED
    BY <2>1, <2>2, <2>3, <2>4, <2>5, <2>6, <2>7, SMTT(30)
<1> QED
  BY <1>2, <1>3, <1>4, Zenon

\* No coefficient of chroma comes back further off than half its step.
LEMMA ChromaNear ==
  ASSUME NEW plane \in {"cr", "cb"}, NEW t, NEW i \in 0 .. 63, t[i] \in Int
  PROVE  Near(Dequantized(plane, QuantizedPlane(plane, t))[i], t[i], ChromaStep(i) \div 2)
<1> DEFINE q == QuantizedPlane(plane, t)
           s == ChromaStep(i)
<1>1. 0 .. COEFFS - 1 = 0 .. 63
  BY SMT DEF COEFFS
<1>2. q[i] = (t[i] + s \div 2) \div s
  <2>1. q[i] = IF i = 0 THEN QuantizeDcRound(plane, t[0])
               ELSE IF plane = "y" THEN Quantize(t[i], i) ELSE QuantizeChromaAc(t[i], i)
    BY <1>1, Zenon DEF QuantizedPlane
  <2>2. plane # "y"
    BY SMT
  <2>3. CASE i = 0
    <3>1. q[i] = QuantizeDcRound(plane, t[i]) /\ s = 64 /\ DcStep(plane) = 64
      BY <2>1, <2>2, <2>3, Zenon DEF ChromaStep, DcStep
    <3> QED
      BY <3>1, Zenon DEF QuantizeDcRound
  <2>4. CASE i # 0
    BY <2>1, <2>2, <2>4, Zenon DEF ChromaStep, QuantizeChromaAc
  <2> QED
    BY <2>3, <2>4, Zenon
<1>3. s \in {4, 8, 16, 32, 64}
  BY SMT DEF ChromaStep, ChromaAcStep
<1>4. Dequantized(plane, q)[i] = q[i] * s
  <2>1. Dequantized(plane, q)[i] = q[i] * DockSteps[plane][i]
    BY <1>1, Zenon DEF Dequantized
  <2>2. DockSteps[plane][i] = s
    BY StepsAgree, Zenon
  <2> QED
    BY <2>1, <2>2, Zenon
<1> HIDE DEF q, s
<1>5. Near(q[i] * s, t[i], s \div 2)
  BY <1>2, <1>3, Rounded, Zenon
<1> QED
  BY <1>4, <1>5, Zenon DEF q, s

LumaHalf(i) == IF i \in 16 .. 47 THEN 1 ELSE LumaStep(i) \div 2

\* A coefficient that the clamp behind the quantiser leaves alone.
Unclamped(c, step) == -(2046 * step) <= c /\ c <= 2046 * step

LEMMA RoundedUnclamped ==
  ASSUME NEW c \in Int, NEW s \in {4, 8, 16, 32}, Unclamped(c, s)
  PROVE  LET v == (c + s \div 2) \div s IN Clamp(v, -2048, 2047) = v
<1> DEFINE v == (c + s \div 2) \div s
<1>1. v \in Int /\ -2046 <= v /\ v <= 2046
  <2>1. CASE s = 4
    BY <2>1, SMT DEF Unclamped
  <2>2. CASE s = 8
    BY <2>2, SMT DEF Unclamped
  <2>3. CASE s = 16
    BY <2>3, SMT DEF Unclamped
  <2>4. CASE s = 32
    BY <2>4, SMT DEF Unclamped
  <2> HIDE DEF v
  <2> QED
    BY <2>1, <2>2, <2>3, <2>4, SMT
<1> HIDE DEF v
<1>2. Clamp(v, -2048, 2047) = v
  BY <1>1, SMT DEF Clamp
<1> QED
  BY <1>2, SMT DEF v

LEMMA HalvedUnclamped ==
  ASSUME NEW c \in Int, Unclamped(c, 2)
  PROVE  LET v == IF c < 0 THEN -((-c) \div 2) ELSE c \div 2
         IN  Near(Clamp(v, -2048, 2047) * 2, c, 1)
<1> DEFINE v == IF c < 0 THEN -((-c) \div 2) ELSE c \div 2
<1>1. v \in Int /\ -2046 <= v /\ v <= 2046 /\ v * 2 - c \in -1 .. 1
  BY SMT DEF Unclamped
<1> HIDE DEF v
<1>2. Clamp(v, -2048, 2047) = v
  BY <1>1, SMT DEF Clamp
<1>3. Near(v * 2, c, 1)
  BY <1>1, SMT DEF Near
<1> QED
  BY <1>2, <1>3, SMT DEF v

\* Nor does one of luma, as long as it is not clamped.
LEMMA LumaNear ==
  ASSUME NEW t, NEW i \in 0 .. 63, t[i] \in Int,
         i # 0 => Unclamped(t[i], LumaStep(i))
  PROVE  Near(Dequantized("y", QuantizedPlane("y", t))[i], t[i], LumaHalf(i))
<1> DEFINE q == QuantizedPlane("y", t)
           s == LumaStep(i)
           c == t[i]
<1>1. 0 .. COEFFS - 1 = 0 .. 63
  BY SMT DEF COEFFS
<1>2. q[i] = IF i = 0 THEN QuantizeDcRound("y", c) ELSE Quantize(c, i)
  BY <1>1, Zenon DEF QuantizedPlane
<1>3. Dequantized("y", q)[i] = q[i] * s
  <2>1. Dequantized("y", q)[i] = q[i] * DockSteps["y"][i]
    BY <1>1, Zenon DEF Dequantized
  <2> QED
    BY <2>1, StepsAgree, Zenon
<1> HIDE DEF q, c
<1>4. CASE i = 0
  <2>1. s = 16 /\ LumaHalf(i) = s \div 2
    BY <1>4, SMT DEF LumaHalf, LumaStep
  <2>2. q[i] = (c + s \div 2) \div s
    BY <1>2, <1>4, <2>1, SMT DEF QuantizeDcRound, DcStep
  <2> HIDE DEF s
  <2>3. Near(q[i] * s, c, s \div 2)
    <3>1. s \in {4, 8, 16, 32, 64} /\ c \in Int
      BY <2>1, Zenon DEF c
    <3>2. Near(((c + s \div 2) \div s) * s, c, s \div 2)
      BY <3>1, Rounded, Zenon
    <3> QED
      BY <2>2, <3>2, Zenon
  <2> QED
    BY <1>3, <2>1, <2>3, Zenon DEF q, c, s
<1>5. CASE i \in 16 .. 47
  <2>1. s = 2 /\ StepBias(i) = [step |-> 2, bias |-> 0] /\ LumaHalf(i) = 1 /\ i # 0
    BY <1>5, SMT DEF LumaHalf, LumaStep, StepBias
  <2> HIDE DEF s
  <2>2. c \in Int /\ Unclamped(c, 2)
    BY <2>1, Zenon DEF c, s
  <2>3. q[i] = Clamp(IF c < 0 THEN -((-c) \div 2) ELSE c \div 2, -2048, 2047)
    BY <1>2, <2>1, SMT DEF Quantize
  <2>4. Near(q[i] * 2, c, 1)
    BY <2>2, <2>3, HalvedUnclamped, SMT
  <2> QED
    BY <1>3, <2>1, <2>4, Zenon DEF q, c, s
<1>6. CASE i # 0 /\ i \notin 16 .. 47
  <2>1. /\ s \in {4, 8, 16, 32} /\ StepBias(i).step = s /\ StepBias(i).bias = s \div 2
        /\ LumaHalf(i) = s \div 2
    BY <1>6, SMT DEF LumaHalf, LumaStep, StepBias
  <2>2. Unclamped(c, s)
    BY <1>6, Zenon DEF c
  <2> HIDE DEF s
  <2>3. s \div 2 # 0
    BY <2>1, SMT
  <2>4. q[i] = Clamp((c + s \div 2) \div s, -2048, 2047)
    <3>1. q[i] = Quantize(c, i)
      BY <1>2, <1>6, Zenon
    <3> QED
      BY <2>1, <2>3, <3>1, SMT DEF Quantize
  <2>5. c \in Int /\ s \in {4, 8, 16, 32}
    BY <2>1, Zenon DEF c
  <2>6. q[i] = (c + s \div 2) \div s
    BY <2>2, <2>4, <2>5, RoundedUnclamped, SMT
  <2>7. Near(q[i] * s, c, s \div 2)
    <3>1. s \in {4, 8, 16, 32, 64}
      BY <2>1, Zenon
    <3> QED
      BY <2>6, <3>1, Rounded, Zenon DEF c
  <2> QED
    BY <1>3, <2>1, <2>7, Zenon DEF q, c, s
<1> QED
  BY <1>4, <1>5, <1>6, Zenon

-----------------------------------------------------------------------------
(* How far a coefficient reaches.                                          *)

LEMMA Reach ==
  ASSUME NEW n \in {2, 4, 8}, NEW src \in Block(n), NEW hi \in Nat,
         \A p \in 0 .. n * n - 1 : src[p] \in 0 .. hi
  PROVE  LET b == Haar2d(src, n) IN
         \A k \in Places(n) :
           /\ b.ll[k] \in 0 .. 4 * hi /\ b.lh[k] \in -(2 * hi) .. 2 * hi
           /\ b.hl[k] \in -(2 * hi) .. 2 * hi /\ b.hh[k] \in -(2 * hi) .. 2 * hi
<1> SUFFICES ASSUME NEW k \in Places(n)
             PROVE  LET b == Haar2d(src, n) IN
                    /\ b.ll[k] \in 0 .. 4 * hi /\ b.lh[k] \in -(2 * hi) .. 2 * hi
                    /\ b.hl[k] \in -(2 * hi) .. 2 * hi /\ b.hh[k] \in -(2 * hi) .. 2 * hi
  BY Zenon
<1> DEFINE b == Haar2d(src, n)
           c == Corner(n, k)
           a1 == src[c]
           a2 == src[c + 1]
           a3 == src[c + n]
           a4 == src[c + n + 1]
<1>1. {c, c + 1, c + n, c + n + 1} \subseteq 0 .. n * n - 1
  BY Corners, Zenon
<1>2. /\ b.ll[k] = a1 + a2 + a3 + a4 /\ b.lh[k] = a1 + a2 - a3 - a4
      /\ b.hl[k] = a1 - a2 + a3 - a4 /\ b.hh[k] = a1 - a2 - a3 + a4
  BY HaarSquares, Zenon
<1> HIDE DEF c, b
<1>3. a1 \in 0 .. hi /\ a2 \in 0 .. hi /\ a3 \in 0 .. hi /\ a4 \in 0 .. hi
  BY <1>1, Zenon
<1> HIDE DEF a1, a2, a3, a4
<1>4. /\ b.ll[k] \in 0 .. 4 * hi /\ b.lh[k] \in -(2 * hi) .. 2 * hi
      /\ b.hl[k] \in -(2 * hi) .. 2 * hi /\ b.hh[k] \in -(2 * hi) .. 2 * hi
  BY <1>2, <1>3, SMT
<1> QED
  BY <1>4, Zenon DEF b

LEMMA Scanned ==
  ASSUME NEW k \in 0 .. 15
  PROVE  SCAN4_MORTON[k + 1] \in 0 .. 15
  BY SMT DEF SCAN4_MORTON

LEMMA Coefficients ==
  ASSUME NEW block, Sampled(block)
  PROVE  LET t == Transform(block) IN
         /\ t[0] \in Int /\ t[1] \in Int /\ t[2] \in Int /\ t[3] \in Int
         /\ \A k \in 0 .. 3 : t[4 + k] \in Int /\ t[8 + k] \in Int /\ t[12 + k] \in Int
         /\ \A k \in 0 .. 15 : t[16 + k] \in Int /\ t[32 + k] \in Int /\ t[48 + k] \in Int
<1> DEFINE t == Transform(block)
<1>1. InOrder(t, One(block), Two(block), Three(block))
  <2>1. t = Layout(One(block), Two(block), Three(block))
    BY Zenon DEF Transform, SecondLevel, ThirdLevel, One, Two, Three
  <2> QED
    BY <2>1, LaidOut, Zenon
<1> HIDE DEF t
<1>2. \A v, x : Multiple(v, 64) /\ x = v \div 64 => x \in Int
  BY SMT DEF Multiple
<1>3. t[0] \in Int /\ t[1] \in Int /\ t[2] \in Int /\ t[3] \in Int
  BY Sent, Zenon DEF t, Scaled
<1>4. \A k \in 0 .. 3 : t[4 + k] \in Int /\ t[8 + k] \in Int /\ t[12 + k] \in Int
  BY Sent, Zenon DEF t, Scaled
<1>5. ASSUME NEW k \in 0 .. 15
      PROVE  t[16 + k] \in Int /\ t[32 + k] \in Int /\ t[48 + k] \in Int
  <2> DEFINE at == SCAN4_MORTON[k + 1]
  <2>1. at \in 0 .. 15
    BY Scanned, Zenon
  <2>2. /\ t[16 + k] = One(block).hl[at] \div 64 /\ t[32 + k] = One(block).lh[at] \div 64
        /\ t[48 + k] = One(block).hh[at] \div 64
    BY <1>1, Zenon DEF InOrder
  <2> HIDE DEF at
  <2>3. /\ Multiple(One(block).hl[at], 64) /\ Multiple(One(block).lh[at], 64)
        /\ Multiple(One(block).hh[at], 64)
    BY <2>1, Levels, Zenon
  <2> QED
    BY <1>2, <2>2, <2>3, ZenonT(40)
<1> QED
  BY <1>3, <1>4, <1>5, Zenon DEF t

\* The samples of ten bits per channel, in sixty-fourths.
WHITE == 64 * 1023

Lit(block) == \A p \in 0 .. 63 : block[p] \in 0 .. WHITE

\* v reaches no further than twice hi on either side.
Twice(v, hi) == v \in -(2 * hi) .. 2 * hi

LEMMA LevelsReach ==
  ASSUME NEW block, Sampled(block), Lit(block)
  PROVE  /\ \A k \in 0 .. 15 : /\ Twice(One(block).hl[k], WHITE) /\ Twice(One(block).lh[k], WHITE)
                               /\ Twice(One(block).hh[k], WHITE)
         /\ \A k \in 0 .. 3 : /\ Twice(Two(block).hl[k], 4 * WHITE) /\ Twice(Two(block).lh[k], 4 * WHITE)
                              /\ Twice(Two(block).hh[k], 4 * WHITE)
         /\ Twice(Three(block).hl[0], 4 * (4 * WHITE)) /\ Twice(Three(block).lh[0], 4 * (4 * WHITE))
         /\ Twice(Three(block).hh[0], 4 * (4 * WHITE))
<1>1. Places(8) = 0 .. 15 /\ Places(4) = 0 .. 3 /\ Places(2) = 0 .. 0 /\ 0 \in 0 .. 0
  BY SMT DEF Places
<1>2. 8 * 8 - 1 = 63 /\ 4 * 4 - 1 = 15 /\ 2 * 2 - 1 = 3
  BY SMT
<1>3. WHITE \in Nat /\ 4 * WHITE \in Nat /\ 4 * (4 * WHITE) \in Nat
  BY SMT DEF WHITE
<1>4. block \in Block(8) /\ One(block).ll \in Block(4) /\ Two(block).ll \in Block(2)
  BY Levels, Zenon DEF Sampled
<1>5. \A k \in 0 .. 15 :
         /\ One(block).ll[k] \in 0 .. 4 * WHITE /\ Twice(One(block).lh[k], WHITE)
         /\ Twice(One(block).hl[k], WHITE) /\ Twice(One(block).hh[k], WHITE)
  BY <1>1, <1>2, <1>3, <1>4, Reach, Zenon DEF One, Lit, Twice
<1>6. \A k \in 0 .. 3 :
         /\ Two(block).ll[k] \in 0 .. 4 * (4 * WHITE) /\ Twice(Two(block).lh[k], 4 * WHITE)
         /\ Twice(Two(block).hl[k], 4 * WHITE) /\ Twice(Two(block).hh[k], 4 * WHITE)
  <2>1. \A k \in 0 .. 15 : One(block).ll[k] \in 0 .. 4 * WHITE
    BY <1>5, Zenon
  <2> QED
    BY <1>1, <1>2, <1>3, <1>4, <2>1, Reach, Zenon DEF Two, Twice
<1>7. /\ Twice(Three(block).lh[0], 4 * (4 * WHITE)) /\ Twice(Three(block).hl[0], 4 * (4 * WHITE))
      /\ Twice(Three(block).hh[0], 4 * (4 * WHITE))
  <2>1. \A k \in 0 .. 3 : Two(block).ll[k] \in 0 .. 4 * (4 * WHITE)
    BY <1>6, Zenon
  <2> QED
    BY <1>1, <1>2, <1>3, <1>4, <2>1, Reach, Zenon DEF Three, Twice
<1> QED
  BY <1>5, <1>6, <1>7, Zenon

LEMMA TwiceUnclamped ==
  ASSUME NEW v, NEW f \in {1, 4, 16}, Twice(v, f * WHITE)
  PROVE  Unclamped(v \div 64, f) /\ Unclamped(v \div 64, 2 * f) /\ Unclamped(v \div 64, 4 * f)
<1> DEFINE hi == f * WHITE
<1>1. hi \in Nat /\ hi = 65472 * f
  BY SMT DEF WHITE
<1> HIDE DEF hi
<1>2. v \in Int /\ -(2 * hi) <= v /\ v <= 2 * hi
  BY <1>1, SMT DEF Twice, hi
<1>3. -(2046 * f) <= v \div 64 /\ v \div 64 <= 2046 * f
  BY <1>1, <1>2, SMT
<1> QED
  BY <1>2, <1>3, SMT DEF Unclamped

\* The clamp behind the quantiser is never reached.
LEMMA LumaUnclamped ==
  ASSUME NEW block, Sampled(block), Lit(block)
  PROVE  LET t == Transform(block) IN
         /\ Unclamped(t[1], 16) /\ Unclamped(t[2], 16) /\ Unclamped(t[3], 32)
         /\ \A k \in 0 .. 3 : /\ Unclamped(t[4 + k], 4) /\ Unclamped(t[8 + k], 4)
                              /\ Unclamped(t[12 + k], 8)
         /\ \A k \in 0 .. 15 : /\ Unclamped(t[16 + k], 2) /\ Unclamped(t[32 + k], 2)
                               /\ Unclamped(t[48 + k], 4)
<1> DEFINE t == Transform(block)
<1>1. InOrder(t, One(block), Two(block), Three(block))
  <2>1. t = Layout(One(block), Two(block), Three(block))
    BY Zenon DEF Transform, SecondLevel, ThirdLevel, One, Two, Three
  <2> QED
    BY <2>1, LaidOut, Zenon
<1> HIDE DEF t
<1>8. WHITE = 1 * WHITE /\ 4 * (4 * WHITE) = 16 * WHITE
  BY SMT DEF WHITE
<1>9. 2 * 1 = 2 /\ 4 * 1 = 4 /\ 2 * 4 = 8 /\ 2 * 16 = 32
  BY SMT
<1>2. \A v, x : Twice(v, WHITE) /\ x = v \div 64 => Unclamped(x, 2) /\ Unclamped(x, 4)
  BY <1>8, <1>9, TwiceUnclamped, ZenonT(40)
<1>3. \A v, x : Twice(v, 4 * WHITE) /\ x = v \div 64 => Unclamped(x, 4) /\ Unclamped(x, 8)
  BY <1>8, <1>9, TwiceUnclamped, ZenonT(40)
<1>4. \A v, x : Twice(v, 4 * (4 * WHITE)) /\ x = v \div 64 => Unclamped(x, 16) /\ Unclamped(x, 32)
  BY <1>8, <1>9, TwiceUnclamped, ZenonT(40)
<1>5. Unclamped(t[1], 16) /\ Unclamped(t[2], 16) /\ Unclamped(t[3], 32)
  <2>1. /\ t[1] = Three(block).hl[0] \div 64 /\ t[2] = Three(block).lh[0] \div 64
        /\ t[3] = Three(block).hh[0] \div 64
    BY <1>1, Zenon DEF InOrder
  <2>2. /\ Twice(Three(block).hl[0], 4 * (4 * WHITE)) /\ Twice(Three(block).lh[0], 4 * (4 * WHITE))
        /\ Twice(Three(block).hh[0], 4 * (4 * WHITE))
    BY LevelsReach, Zenon
  <2> QED
    BY <1>4, <2>1, <2>2, ZenonT(40)
<1>6. ASSUME NEW k \in 0 .. 3
      PROVE  Unclamped(t[4 + k], 4) /\ Unclamped(t[8 + k], 4) /\ Unclamped(t[12 + k], 8)
  <2>1. /\ t[4 + k] = Two(block).hl[k] \div 64 /\ t[8 + k] = Two(block).lh[k] \div 64
        /\ t[12 + k] = Two(block).hh[k] \div 64
    BY <1>1, Zenon DEF InOrder
  <2>2. /\ Twice(Two(block).hl[k], 4 * WHITE) /\ Twice(Two(block).lh[k], 4 * WHITE)
        /\ Twice(Two(block).hh[k], 4 * WHITE)
    BY LevelsReach, Zenon
  <2> QED
    BY <1>3, <2>1, <2>2, Zenon
<1>7. ASSUME NEW k \in 0 .. 15
      PROVE  Unclamped(t[16 + k], 2) /\ Unclamped(t[32 + k], 2) /\ Unclamped(t[48 + k], 4)
  <2> DEFINE at == SCAN4_MORTON[k + 1]
  <2>1. at \in 0 .. 15
    BY Scanned, Zenon
  <2>2. /\ t[16 + k] = One(block).hl[at] \div 64 /\ t[32 + k] = One(block).lh[at] \div 64
        /\ t[48 + k] = One(block).hh[at] \div 64
    BY <1>1, Zenon DEF InOrder
  <2> HIDE DEF at
  <2>3. /\ Twice(One(block).hl[at], WHITE) /\ Twice(One(block).lh[at], WHITE)
        /\ Twice(One(block).hh[at], WHITE)
    BY <2>1, LevelsReach, Zenon
  <2> QED
    BY <1>2, <2>2, <2>3, Zenon
<1> QED
  BY <1>5, <1>6, <1>7, Zenon DEF t

-----------------------------------------------------------------------------
(* A plane, and a picture.                                                 *)

Returned(plane, block) == Itransform(Dequantized(plane, QuantizedPlane(plane, Transform(block))))

LEMMA ItransformIs ==
  ASSUME NEW d
  PROVE  Itransform(d) = Ihaar2d(First(d), 8)
  BY Zenon DEF Itransform, First, Second, Third, Band, Unmorton

\* How far a sample of a plane may come back from what it was, in sixty-fourths.
CHROMA_OFF == 1216

LUMA_OFF == 136

LEMMA ChromaComesBack ==
  ASSUME NEW plane \in {"cr", "cb"}, NEW block, Sampled(block)
  PROVE  SamplesNear(Returned(plane, block), block, 8, 1, CHROMA_OFF)
<1> DEFINE t == Transform(block)
           d == Dequantized(plane, QuantizedPlane(plane, t))
           third == 1024
           second == 768
<1>1. /\ ChromaStep(0) \div 2 = 32 /\ ChromaStep(1) \div 2 = 8
      /\ ChromaStep(2) \div 2 = 8 /\ ChromaStep(3) \div 2 = 16
  BY SMT DEF ChromaStep, ChromaAcStep
<1>2. \A k \in 0 .. 3 : /\ ChromaStep(4 + k) \div 2 = 8 /\ ChromaStep(8 + k) \div 2 = 8
                        /\ ChromaStep(12 + k) \div 2 = 16
  BY SMT DEF ChromaStep, ChromaAcStep
<1>3. \A k \in 0 .. 15 : /\ ChromaStep(16 + k) \div 2 = 16 /\ ChromaStep(32 + k) \div 2 = 16
                         /\ ChromaStep(48 + k) \div 2 = 32
  BY SMT DEF ChromaStep, ChromaAcStep
<1>4. \A i \in 0 .. 63 : t[i] \in Int => Near(d[i], t[i], ChromaStep(i) \div 2)
  BY ChromaNear, Zenon
<1>5. /\ third \in Nat /\ second \in Nat /\ CHROMA_OFF \in Nat
      /\ 64 * 32 + 64 * 8 + 64 * 8 + 64 * 16 <= 4 * third
      /\ third + 64 * 8 + 64 * 8 + 64 * 16 <= 4 * second
      /\ second + 64 * 16 + 64 * 16 + 64 * 32 <= 4 * CHROMA_OFF
  BY SMT DEF CHROMA_OFF
<1> HIDE DEF t, d, third, second
<1>6. Near(d[0], t[0], 32) /\ Near(d[1], t[1], 8) /\ Near(d[2], t[2], 8) /\ Near(d[3], t[3], 16)
  <2>1. 0 \in 0 .. 63 /\ 1 \in 0 .. 63 /\ 2 \in 0 .. 63 /\ 3 \in 0 .. 63
    BY SMT
  <2>2. t[0] \in Int /\ t[1] \in Int /\ t[2] \in Int /\ t[3] \in Int
    BY Coefficients, Zenon DEF t
  <2>3. /\ Near(d[0], t[0], ChromaStep(0) \div 2) /\ Near(d[1], t[1], ChromaStep(1) \div 2)
        /\ Near(d[2], t[2], ChromaStep(2) \div 2) /\ Near(d[3], t[3], ChromaStep(3) \div 2)
    BY <1>4, <2>1, <2>2, Zenon
  <2> QED
    BY <1>1, <2>3, Zenon
<1>7. ASSUME NEW k \in 0 .. 3
      PROVE  Near(d[4 + k], t[4 + k], 8) /\ Near(d[8 + k], t[8 + k], 8) /\ Near(d[12 + k], t[12 + k], 16)
  <2>1. 4 + k \in 0 .. 63 /\ 8 + k \in 0 .. 63 /\ 12 + k \in 0 .. 63
    BY SMT
  <2>2. t[4 + k] \in Int /\ t[8 + k] \in Int /\ t[12 + k] \in Int
    BY Coefficients, Zenon DEF t
  <2>3. /\ Near(d[4 + k], t[4 + k], ChromaStep(4 + k) \div 2)
        /\ Near(d[8 + k], t[8 + k], ChromaStep(8 + k) \div 2)
        /\ Near(d[12 + k], t[12 + k], ChromaStep(12 + k) \div 2)
    BY <1>4, <2>1, <2>2, Zenon
  <2> QED
    BY <1>2, <2>3, Zenon
<1>8. ASSUME NEW k \in 0 .. 15
      PROVE  /\ Near(d[16 + k], t[16 + k], 16) /\ Near(d[32 + k], t[32 + k], 16)
             /\ Near(d[48 + k], t[48 + k], 32)
  <2>1. 16 + k \in 0 .. 63 /\ 32 + k \in 0 .. 63 /\ 48 + k \in 0 .. 63
    BY SMT
  <2>2. t[16 + k] \in Int /\ t[32 + k] \in Int /\ t[48 + k] \in Int
    BY Coefficients, Zenon DEF t
  <2>3. /\ Near(d[16 + k], t[16 + k], ChromaStep(16 + k) \div 2)
        /\ Near(d[32 + k], t[32 + k], ChromaStep(32 + k) \div 2)
        /\ Near(d[48 + k], t[48 + k], ChromaStep(48 + k) \div 2)
    BY <1>4, <2>1, <2>2, Zenon
  <2> QED
    BY <1>3, <2>3, Zenon
<1>9. 8 \in Nat /\ 16 \in Nat /\ 32 \in Nat
  BY SMT
<1>10. SamplesNear(Ihaar2d(Third(d), 2), Two(block).ll, 2, 16, third)
  BY <1>5, <1>6, <1>9, ThirdComesBack, Zenon DEF t
<1>11. SamplesNear(Ihaar2d(Second(d), 4), One(block).ll, 4, 4, second)
  BY <1>5, <1>7, <1>9, <1>10, SecondComesBack, Zenon DEF t
<1>12. SamplesNear(Ihaar2d(First(d), 8), block, 8, 1, CHROMA_OFF)
  BY <1>5, <1>8, <1>9, <1>11, FirstComesBack, ZenonT(40) DEF t
<1> QED
  BY <1>12, ItransformIs, Zenon DEF Returned, d, t

LEMMA LumaComesBack ==
  ASSUME NEW block, Sampled(block), Lit(block)
  PROVE  SamplesNear(Returned("y", block), block, 8, 1, LUMA_OFF)
<1> DEFINE t == Transform(block)
           d == Dequantized("y", QuantizedPlane("y", t))
           third == 640
           second == 288
<1>1. /\ LumaHalf(0) = 8 /\ LumaHalf(1) = 8 /\ LumaHalf(2) = 8 /\ LumaHalf(3) = 16
      /\ LumaStep(1) = 16 /\ LumaStep(2) = 16 /\ LumaStep(3) = 32
  BY SMT DEF LumaHalf, LumaStep, StepBias
<1>2. \A k \in 0 .. 3 : /\ LumaHalf(4 + k) = 2 /\ LumaHalf(8 + k) = 2 /\ LumaHalf(12 + k) = 4
                        /\ LumaStep(4 + k) = 4 /\ LumaStep(8 + k) = 4 /\ LumaStep(12 + k) = 8
  <2>1. ASSUME NEW k \in 0 .. 3 PROVE LumaStep(4 + k) = 4 /\ LumaStep(8 + k) = 4 /\ LumaStep(12 + k) = 8
    BY SMT DEF LumaStep, StepBias
  <2>2. ASSUME NEW k \in 0 .. 3 PROVE LumaHalf(4 + k) = 2 /\ LumaHalf(8 + k) = 2 /\ LumaHalf(12 + k) = 4
    BY <2>1, SMT DEF LumaHalf
  <2> QED
    BY <2>1, <2>2, Zenon
<1>3. \A k \in 0 .. 15 : /\ LumaHalf(16 + k) = 1 /\ LumaHalf(32 + k) = 1 /\ LumaHalf(48 + k) = 2
                         /\ LumaStep(16 + k) = 2 /\ LumaStep(32 + k) = 2 /\ LumaStep(48 + k) = 4
  <2>1. ASSUME NEW k \in 0 .. 15 PROVE LumaStep(16 + k) = 2 /\ LumaStep(32 + k) = 2 /\ LumaStep(48 + k) = 4
    BY SMT DEF LumaStep, StepBias
  <2>2. ASSUME NEW k \in 0 .. 15 PROVE LumaHalf(16 + k) = 1 /\ LumaHalf(32 + k) = 1 /\ LumaHalf(48 + k) = 2
    BY <2>1, SMT DEF LumaHalf
  <2> QED
    BY <2>1, <2>2, Zenon
<1>4. \A i \in 0 .. 63 : t[i] \in Int /\ (i # 0 => Unclamped(t[i], LumaStep(i)))
                           => Near(d[i], t[i], LumaHalf(i))
  BY LumaNear, Zenon
<1>5. /\ third \in Nat /\ second \in Nat /\ LUMA_OFF \in Nat
      /\ 64 * 8 + 64 * 8 + 64 * 8 + 64 * 16 <= 4 * third
      /\ third + 64 * 2 + 64 * 2 + 64 * 4 <= 4 * second
      /\ second + 64 * 1 + 64 * 1 + 64 * 2 <= 4 * LUMA_OFF
  BY SMT DEF LUMA_OFF
<1> HIDE DEF t, d, third, second
<1>6. Near(d[0], t[0], 8) /\ Near(d[1], t[1], 8) /\ Near(d[2], t[2], 8) /\ Near(d[3], t[3], 16)
  <2>1. 0 \in 0 .. 63 /\ 1 \in 0 .. 63 /\ 2 \in 0 .. 63 /\ 3 \in 0 .. 63
    BY SMT
  <2>2. t[0] \in Int /\ t[1] \in Int /\ t[2] \in Int /\ t[3] \in Int
    BY Coefficients, Zenon DEF t
  <2>3. /\ Unclamped(t[1], LumaStep(1)) /\ Unclamped(t[2], LumaStep(2)) /\ Unclamped(t[3], LumaStep(3))
    BY <1>1, LumaUnclamped, ZenonT(40) DEF t
  <2>4. /\ Near(d[0], t[0], LumaHalf(0)) /\ Near(d[1], t[1], LumaHalf(1))
        /\ Near(d[2], t[2], LumaHalf(2)) /\ Near(d[3], t[3], LumaHalf(3))
    BY <1>4, <2>1, <2>2, <2>3, Zenon
  <2> QED
    BY <1>1, <2>4, Zenon
<1>7. ASSUME NEW k \in 0 .. 3
      PROVE  Near(d[4 + k], t[4 + k], 2) /\ Near(d[8 + k], t[8 + k], 2) /\ Near(d[12 + k], t[12 + k], 4)
  <2>1. 4 + k \in 0 .. 63 /\ 8 + k \in 0 .. 63 /\ 12 + k \in 0 .. 63
    BY SMT
  <2>2. t[4 + k] \in Int /\ t[8 + k] \in Int /\ t[12 + k] \in Int
    BY Coefficients, Zenon DEF t
  <2>3. /\ Unclamped(t[4 + k], LumaStep(4 + k)) /\ Unclamped(t[8 + k], LumaStep(8 + k))
        /\ Unclamped(t[12 + k], LumaStep(12 + k))
    BY <1>2, LumaUnclamped, Zenon DEF t
  <2>4. /\ Near(d[4 + k], t[4 + k], LumaHalf(4 + k)) /\ Near(d[8 + k], t[8 + k], LumaHalf(8 + k))
        /\ Near(d[12 + k], t[12 + k], LumaHalf(12 + k))
    BY <1>4, <2>1, <2>2, <2>3, Zenon
  <2> QED
    BY <1>2, <2>4, Zenon
<1>8. ASSUME NEW k \in 0 .. 15
      PROVE  Near(d[16 + k], t[16 + k], 1) /\ Near(d[32 + k], t[32 + k], 1) /\ Near(d[48 + k], t[48 + k], 2)
  <2>1. 16 + k \in 0 .. 63 /\ 32 + k \in 0 .. 63 /\ 48 + k \in 0 .. 63
    BY SMT
  <2>2. t[16 + k] \in Int /\ t[32 + k] \in Int /\ t[48 + k] \in Int
    BY Coefficients, Zenon DEF t
  <2>3. /\ Unclamped(t[16 + k], LumaStep(16 + k)) /\ Unclamped(t[32 + k], LumaStep(32 + k))
        /\ Unclamped(t[48 + k], LumaStep(48 + k))
    BY <1>3, LumaUnclamped, Zenon DEF t
  <2>4. /\ Near(d[16 + k], t[16 + k], LumaHalf(16 + k)) /\ Near(d[32 + k], t[32 + k], LumaHalf(32 + k))
        /\ Near(d[48 + k], t[48 + k], LumaHalf(48 + k))
    BY <1>4, <2>1, <2>2, <2>3, Zenon
  <2> QED
    BY <1>3, <2>4, Zenon
<1>9. 1 \in Nat /\ 2 \in Nat /\ 4 \in Nat /\ 8 \in Nat /\ 16 \in Nat
  BY SMT
<1>10. SamplesNear(Ihaar2d(Third(d), 2), Two(block).ll, 2, 16, third)
  BY <1>5, <1>6, <1>9, ThirdComesBack, Zenon DEF t
<1>11. SamplesNear(Ihaar2d(Second(d), 4), One(block).ll, 4, 4, second)
  BY <1>5, <1>7, <1>9, <1>10, SecondComesBack, Zenon DEF t
<1>12. SamplesNear(Ihaar2d(First(d), 8), block, 8, 1, LUMA_OFF)
  BY <1>5, <1>8, <1>9, <1>11, FirstComesBack, ZenonT(40) DEF t
<1> QED
  BY <1>12, ItransformIs, Zenon DEF Returned, d, t

Luma(r, g, b) == 64 * g + 64 * (((r - g) + (b - g)) \div 4)

\* The planes of a pixel as they came back, ...
PlanesNear(r, g, b, y, cb, cr) ==
    /\ y \in Int /\ cb \in Int /\ cr \in Int
    /\ -LUMA_OFF <= y - Luma(r, g, b) /\ y - Luma(r, g, b) <= LUMA_OFF
    /\ -CHROMA_OFF <= cb - 64 * (r - g) /\ cb - 64 * (r - g) <= CHROMA_OFF
    /\ -CHROMA_OFF <= cr - 64 * (b - g) /\ cr - 64 * (b - g) <= CHROMA_OFF

\* ... and the pixel they make.
ColoursNear(r, g, b, y, cb, cr) ==
    LET u == cb \div 64
        v == cr \div 64
        green == (y \div 64) - ((u + v) \div 4)
    IN  /\ Near(green + u, r, NEAR_RED_BLUE)
        /\ Near(green, g, NEAR_GREEN)
        /\ Near(green + v, b, NEAR_RED_BLUE)

LEMMA PixelArithmetic ==
  ASSUME NEW r \in Int, NEW g \in Int, NEW b \in Int, NEW y, NEW cb, NEW cr,
         PlanesNear(r, g, b, y, cb, cr)
  PROVE  ColoursNear(r, g, b, y, cb, cr)
<1> DEFINE u == cb \div 64
           v == cr \div 64
           s == (r - g) + (b - g)
           w == y \div 64
           green == w - ((u + v) \div 4)
<1>1. u \in Int /\ -19 <= u - (r - g) /\ u - (r - g) <= 19
  BY SMT DEF CHROMA_OFF, PlanesNear
<1>2. v \in Int /\ -19 <= v - (b - g) /\ v - (b - g) <= 19
  BY SMT DEF CHROMA_OFF, PlanesNear
<1>3. w \in Int /\ s \in Int /\ -3 <= w - g - (s \div 4) /\ w - g - (s \div 4) <= 2
  BY SMT DEF LUMA_OFF, Luma, PlanesNear
<1>4. -38 <= u + v - s /\ u + v - s <= 38
  BY <1>1, <1>2, SMT
<1> HIDE DEF u, v, w
<1>5. -10 <= (u + v) \div 4 - (s \div 4) /\ (u + v) \div 4 - (s \div 4) <= 10
  <2> HIDE DEF s
  <2> QED
    BY <1>1, <1>2, <1>3, <1>4, SMT
<1> HIDE DEF s
<1>6. green \in Int /\ -13 <= green - g /\ green - g <= 12
  BY <1>1, <1>2, <1>3, <1>5, SMT
<1> HIDE DEF green
<1>7. /\ -32 <= green + u - r /\ green + u - r <= 32 /\ -32 <= green + v - b /\ green + v - b <= 32
  BY <1>1, <1>2, <1>6, SMT
<1>8. Near(green + u, r, NEAR_RED_BLUE) /\ Near(green, g, NEAR_GREEN) /\ Near(green + v, b, NEAR_RED_BLUE)
  BY <1>1, <1>2, <1>6, <1>7, SMT DEF Near, NEAR_GREEN, NEAR_RED_BLUE
<1> QED
  BY <1>8, Zenon DEF green, u, v, w, ColoursNear

\* A sample of ten bits.
Sample == 0 .. 1023

LEMMA SampleIsInt == \A s \in Sample : s \in Int
  BY SMTT(30) DEF Sample

LEMMA SampleBounds == \A s \in Sample : 0 <= s /\ s <= 1023
  BY SMTT(30) DEF Sample

\* The planes of a picture are planes of whole samples, and luma is one too.
LEMMA PlanesSampled ==
  ASSUME NEW rgb \in [0 .. PIXELS - 1 -> [1 .. 3 -> Sample]]
  PROVE  LET p == PlanesOf(rgb)
         IN  Sampled(p.cr) /\ Sampled(p.cb) /\ Sampled(p.y) /\ Lit(p.y)
<1> DEFINE p == PlanesOf(rgb)
<1>1. 0 .. PIXELS - 1 = 0 .. 63 /\ 0 .. 8 * 8 - 1 = 0 .. 63
  BY SMT DEF PIXELS
<1>2. 1 \in 1 .. 3 /\ 2 \in 1 .. 3 /\ 3 \in 1 .. 3
  BY SMT
<1>3. ASSUME NEW at \in 0 .. 63
      PROVE  /\ Multiple(p.cr[at], 64) /\ Multiple(p.cb[at], 64) /\ Multiple(p.y[at], 64)
             /\ p.y[at] \in 0 .. WHITE
  <2> DEFINE r == rgb[at][1]
             g == rgb[at][2]
             b == rgb[at][3]
             luma == g + (((r - g) + (b - g)) \div 4)
  <2>1. r \in Sample /\ g \in Sample /\ b \in Sample
    BY <1>1, <1>2, ZenonT(40)
  <2>2. /\ p.cr[at] = 64 * (b - g) /\ p.cb[at] = 64 * (r - g)
        /\ p.y[at] = 64 * g + 64 * (((r - g) + (b - g)) \div 4)
    BY <1>1, Zenon DEF PlanesOf, Colour
  <2> HIDE DEF r, g, b, p
  <2>3. /\ r \in Int /\ 0 <= r /\ r <= 1023 /\ g \in Int /\ 0 <= g /\ g <= 1023
        /\ b \in Int /\ 0 <= b /\ b <= 1023
    <3>1. r \in Int /\ g \in Int /\ b \in Int
      BY <2>1, SampleIsInt, ZenonT(40)
    <3> QED
      BY <2>1, <3>1, SampleBounds, SMTT(30)
  <2>4. luma \in Int /\ 0 <= luma /\ luma <= 1023
    BY <2>3, SMT
  <2>5. p.y[at] = 64 * luma
    BY <2>2, <2>3, SMT
  <2> HIDE DEF luma
  <2>6. p.y[at] \in Int /\ 0 <= p.y[at] /\ p.y[at] <= WHITE /\ WHITE \in Int
    BY <2>4, <2>5, SMT DEF WHITE
  <2>7. p.y[at] \in 0 .. WHITE
    BY <2>6, SMT
  <2>8. Multiple(p.y[at], 64)
    BY <2>4, <2>5, SMT DEF Multiple
  <2>9. Multiple(p.cr[at], 64) /\ Multiple(p.cb[at], 64)
    BY <2>2, <2>3, SMT DEF Multiple
  <2> QED
    BY <2>7, <2>8, <2>9, Zenon
<1>4. /\ p.cr = [at \in 0 .. 63 |-> p.cr[at]] /\ p.cb = [at \in 0 .. 63 |-> p.cb[at]]
      /\ p.y = [at \in 0 .. 63 |-> p.y[at]]
  BY <1>1, Zenon DEF PlanesOf
<1> HIDE DEF p
<1>5. p.cr \in Block(8) /\ p.cb \in Block(8) /\ p.y \in Block(8)
  <2>1. \A at \in 0 .. 63 : p.cr[at] \in Int /\ p.cb[at] \in Int /\ p.y[at] \in Int
    BY <1>3, Zenon DEF Multiple
  <2>2. p.cr \in [0 .. 63 -> Int] /\ p.cb \in [0 .. 63 -> Int] /\ p.y \in [0 .. 63 -> Int]
    BY <1>4, <2>1, Zenon
  <2> QED
    BY <1>1, <2>2, Zenon DEF Block
<1> QED
  BY <1>3, <1>5, Zenon DEF Sampled, Lit, p

(* Whatever the picture, of eight bits per channel or of ten, the decoder  *)
(* that is told the steps of build_config makes of a block that            *)
(* colour_block transformed and quantised the pixels it was given: green   *)
(* to within 13 of 1023, red and blue to within 32.                        *)
THEOREM EveryPictureComesBack ==
  ASSUME NEW rgb \in [0 .. PIXELS - 1 -> [1 .. 3 -> Sample]], NEW at \in 0 .. PIXELS - 1
  PROVE  NearPixel(rgb[at], BlockRgb(ColourBlock(PlanesOf(rgb)))[at])
<1> DEFINE p == PlanesOf(rgb)
           r == rgb[at][1]
           g == rgb[at][2]
           b == rgb[at][3]
           y == Returned("y", p.y)[at]
           cb == Returned("cb", p.cb)[at]
           cr == Returned("cr", p.cr)[at]
           u == cb \div 64
           v == cr \div 64
           green == (y \div 64) - ((u + v) \div 4)
           shown == BlockRgb(ColourBlock(p))[at]
<1>1. 0 .. PIXELS - 1 = 0 .. 8 * 8 - 1
  BY SMT DEF PIXELS
<1>2. shown = <<green + u, green, green + v>>
  BY Zenon DEF BlockRgb, ColourBlock, WithLasts, Uncoloured, Returned
<1>3. p.y[at] = Luma(r, g, b) /\ p.cb[at] = 64 * (r - g) /\ p.cr[at] = 64 * (b - g)
  BY Zenon DEF PlanesOf, Colour, Luma
<1>4. r \in Sample /\ g \in Sample /\ b \in Sample
  <2>1. rgb[at] \in [1 .. 3 -> Sample]
    BY Zenon
  <2>2. 1 \in 1 .. 3 /\ 2 \in 1 .. 3 /\ 3 \in 1 .. 3
    BY SMT
  <2> QED
    BY <2>1, <2>2, Zenon
<1>5. Sampled(p.cr) /\ Sampled(p.cb) /\ Sampled(p.y) /\ Lit(p.y)
  BY PlanesSampled, Zenon
<1> HIDE DEF p
<1>6. Multiple(y, 1) /\ y - p.y[at] \in -LUMA_OFF .. LUMA_OFF
  BY <1>1, <1>5, LumaComesBack, Zenon DEF SamplesNear
<1>7. Multiple(cb, 1) /\ cb - p.cb[at] \in -CHROMA_OFF .. CHROMA_OFF
  BY <1>1, <1>5, ChromaComesBack, Zenon DEF SamplesNear
<1>8. Multiple(cr, 1) /\ cr - p.cr[at] \in -CHROMA_OFF .. CHROMA_OFF
  BY <1>1, <1>5, ChromaComesBack, Zenon DEF SamplesNear
<1> HIDE DEF y, cb, cr, r, g, b, shown
<1>9. y \in Int /\ cb \in Int /\ cr \in Int
  BY <1>6, <1>7, <1>8, MultipleInt, ZenonT(40)
<1>10. r \in Int /\ g \in Int /\ b \in Int
  BY <1>4, SampleIsInt, ZenonT(40)
<1>11. \A a, e \in Int : a \in -e .. e => -e <= a /\ a <= e
  BY SMT
<1>12. /\ -LUMA_OFF <= y - Luma(r, g, b) /\ y - Luma(r, g, b) <= LUMA_OFF
       /\ -CHROMA_OFF <= cb - 64 * (r - g) /\ cb - 64 * (r - g) <= CHROMA_OFF
       /\ -CHROMA_OFF <= cr - 64 * (b - g) /\ cr - 64 * (b - g) <= CHROMA_OFF
  <2>1. LUMA_OFF \in Int /\ CHROMA_OFF \in Int
    BY SMT DEF LUMA_OFF, CHROMA_OFF
  <2>2. Luma(r, g, b) \in Int /\ 64 * (r - g) \in Int /\ 64 * (b - g) \in Int
    BY <1>10, SMT DEF Luma
  <2>3. y - Luma(r, g, b) \in Int /\ cb - 64 * (r - g) \in Int /\ cr - 64 * (b - g) \in Int
    <3>1. \A a, c \in Int : a - c \in Int
      BY SMT
    <3> QED
      BY <1>9, <2>2, <3>1, Zenon
  <2>4. /\ y - Luma(r, g, b) \in -LUMA_OFF .. LUMA_OFF
        /\ cb - 64 * (r - g) \in -CHROMA_OFF .. CHROMA_OFF
        /\ cr - 64 * (b - g) \in -CHROMA_OFF .. CHROMA_OFF
    BY <1>3, <1>6, <1>7, <1>8, Zenon
  <2> QED
    BY <1>11, <2>1, <2>3, <2>4, Zenon
<1>13. Near(green + u, r, NEAR_RED_BLUE) /\ Near(green, g, NEAR_GREEN) /\ Near(green + v, b, NEAR_RED_BLUE)
  <2>1. PlanesNear(r, g, b, y, cb, cr)
    BY <1>9, <1>12, Zenon DEF PlanesNear
  <2>2. ColoursNear(r, g, b, y, cb, cr)
    BY <1>10, <2>1, PixelArithmetic, Zenon
  <2> QED
    BY <2>2, Zenon DEF ColoursNear
<1> HIDE DEF u, v, green
<1>14. Near(shown[1], r, NEAR_RED_BLUE) /\ Near(shown[2], g, NEAR_GREEN) /\ Near(shown[3], b, NEAR_RED_BLUE)
  <2>1. shown[1] = green + u /\ shown[2] = green /\ shown[3] = green + v
    <3> DEFINE x == green + u
               z == green + v
    <3>1. shown = <<x, green, z>>
      BY <1>2, Zenon
    <3> HIDE DEF x, z
    <3>2. shown[1] = x /\ shown[2] = green /\ shown[3] = z
      BY <3>1, SMT
    <3> QED
      BY <3>2, Zenon DEF x, z
  <2> QED
    BY <1>13, <2>1, Zenon
<1>15. ASSUME NEW c \in 1 .. 3
       PROVE  LET most == IF c = 2 THEN NEAR_GREEN ELSE NEAR_RED_BLUE
              IN  Near(shown[c], rgb[at][c], most)
  <2>1. c = 1 \/ c = 2 \/ c = 3
    BY SMT
  <2>2. 1 # 2 /\ 3 # 2
    BY SMT
  <2> QED
    BY <1>14, <2>1, <2>2, Zenon DEF r, g, b
<1> QED
  BY <1>15, Zenon DEF NearPixel, Near, shown, p

(***************************************************************************)
(* The modes of a dock.                                                    *)
(***************************************************************************)

ModeOf(r) == SetMode(Timings[r], TenBit, FALSE)

\* A connector that is lit was told, in its set-mode and in the header its
\* stream opened with, one mode of the table: the one last asked for.
Runs(c, r) ==
    /\ asked[c] = r
    /\ told[c] = ModeOf(r)
    /\ opened[c] = StreamModeHeader(r)

ModesInv ==
    /\ family \in Families
    /\ mode_active \in [Driven -> BOOLEAN]
    /\ \A c \in Driven : mode_active[c] => \E r \in DOMAIN Timings : Runs(c, r)

\* What a dock is told depends on its family, and that does not change.
LEMMA SameDock ==
  ASSUME family' = family
  PROVE  /\ Driven' = Driven
         /\ \A r : StreamModeHeader(r)' = StreamModeHeader(r)
         /\ \A r : ModeOf(r)' = ModeOf(r)
<1>1. Dock' = Dock
  BY Zenon DEF Dock
<1>2. Driven' = Driven /\ TenBit' = TenBit
  BY <1>1, Zenon DEF Driven, TenBit
<1>3. ASSUME NEW r
      PROVE  StreamModeHeader(r)' = StreamModeHeader(r)
  BY <1>1, <1>2, Zenon DEF StreamModeHeader
<1>4. ASSUME NEW r
      PROVE  ModeOf(r)' = ModeOf(r)
  <2> DEFINE m == Timings[r]
  <2>1. Words(m.hdisplay, m.vdisplay, TenBit)' = Words(m.hdisplay, m.vdisplay, TenBit)
    BY <1>2, SMT DEF Words
  <2> QED
    BY <1>2, <2>1, Zenon DEF ModeOf, SetMode
<1> QED
  BY <1>2, <1>3, <1>4, Zenon

LEMMA ModesInitInv == family \in Families /\ ModesInit => ModesInv
  BY Zenon DEF ModesInit, ModesInv

LEMMA Programmed ==
  ASSUME ModesInv, family' = family, NEW requests, NEW active,
         DOMAIN requests \subseteq Driven,
         active \in [Driven -> BOOLEAN], \A c \in Driven : active[c] => mode_active[c],
         Program(requests, active)
  PROVE  ModesInv'
<1>1. family' \in Families /\ Driven' = Driven
  BY SameDock, Zenon DEF ModesInv
<1>2. mode_active' = [c \in Driven |-> c \in DOMAIN requests \/ active[c]]
  BY Zenon DEF Program
<1>3. mode_active' \in [Driven -> BOOLEAN]
  BY <1>2, Zenon
<1>4. ASSUME NEW c \in Driven, mode_active'[c]
      PROVE  \E r \in DOMAIN Timings : Runs(c, r)'
  <2>1. CASE c \in DOMAIN requests
    <3> DEFINE r == requests[c]
    <3>1. r \in DOMAIN Timings /\ asked'[c] = r
      BY <2>1, Zenon DEF Program
    <3>2. told'[c] = ModeOf(r) /\ opened'[c] = StreamModeHeader(r)
      BY <2>1, Zenon DEF Program, ModeOf
    <3> HIDE DEF r
    <3>3. Runs(c, r)'
      BY <3>1, <3>2, SameDock, Zenon DEF Runs
    <3> QED
      BY <3>1, <3>3, Zenon
  <2>2. CASE c \notin DOMAIN requests
    <3>1. mode_active[c]
      BY <1>2, <1>4, <2>2, Zenon
    <3>2. PICK r \in DOMAIN Timings : Runs(c, r)
      BY <3>1, Zenon DEF ModesInv
    <3>3. asked'[c] = asked[c] /\ told'[c] = told[c] /\ opened'[c] = opened[c]
      BY <2>2, Zenon DEF Program
    <3>4. Runs(c, r)'
      BY <3>2, <3>3, SameDock, Zenon DEF Runs
    <3> QED
      BY <3>4, Zenon
  <2> QED
    BY <2>1, <2>2, Zenon
<1> QED
  BY <1>1, <1>3, <1>4, Zenon DEF ModesInv

LEMMA ModesStep ==
  ASSUME ModesInv, [ModesNext /\ UNCHANGED family]_<<family, modeVars>>
  PROVE  ModesInv'
<1>1. ASSUME NEW c \in Driven, DeactivateMode(c), family' = family
      PROVE  ModesInv'
  <2>1. family' \in Families /\ Driven' = Driven /\ mode_active' \in [Driven -> BOOLEAN]
    BY <1>1, SameDock, Zenon DEF ModesInv, DeactivateMode
  <2>2. ASSUME NEW d \in Driven, mode_active'[d]
        PROVE  \E r \in DOMAIN Timings : Runs(d, r)'
    <3>1. mode_active[d]
      BY <1>1, <2>2, Zenon DEF DeactivateMode, ModesInv
    <3>2. PICK r \in DOMAIN Timings : Runs(d, r)
      BY <3>1, Zenon DEF ModesInv
    <3>3. Runs(d, r)'
      BY <1>1, <3>2, SameDock, Zenon DEF Runs, DeactivateMode
    <3> QED
      BY <3>3, Zenon
  <2> QED
    BY <2>1, <2>2, Zenon DEF ModesInv
<1>2. ASSUME NEW c \in Driven, NEW r \in DOMAIN Timings, ActivateMode(c, r), family' = family
      PROVE  ModesInv'
  <2> DEFINE requests == [d \in {c} |-> r]
  <2>1. DOMAIN requests \subseteq Driven
    BY Zenon
  <2>2. Program(requests, mode_active)
    BY <1>2, Zenon DEF ActivateMode
  <2>3. mode_active \in [Driven -> BOOLEAN]
    BY Zenon DEF ModesInv
  <2> HIDE DEF requests
  <2> QED
    BY <1>2, <2>1, <2>2, <2>3, Programmed, Zenon
<1>3. ASSUME NEW on \in SUBSET Driven, NEW requests \in [on -> DOMAIN Timings],
             ActivateModes(requests), family' = family
      PROVE  ModesInv'
  <2> DEFINE dark == [c \in Driven |-> FALSE]
  <2>1. DOMAIN requests \subseteq Driven
    BY Zenon
  <2>2. Program(requests, dark)
    BY <1>3, Zenon DEF ActivateModes
  <2>3. dark \in [Driven -> BOOLEAN] /\ \A c \in Driven : dark[c] => mode_active[c]
    BY Zenon
  <2> HIDE DEF dark
  <2> QED
    BY <1>3, <2>1, <2>2, <2>3, Programmed, Zenon
<1>4. CASE UNCHANGED <<family, modeVars>>
  <2>1. /\ family' = family /\ mode_active' = mode_active /\ asked' = asked /\ told' = told
        /\ opened' = opened
    BY <1>4, Zenon DEF modeVars
  <2>2. \A c, r : Runs(c, r) => Runs(c, r)'
    BY <2>1, SameDock, Zenon DEF Runs
  <2> QED
    BY <2>1, <2>2, SameDock, Zenon DEF ModesInv
<1> QED
  BY <1>1, <1>2, <1>3, <1>4, Zenon DEF ModesNext

\* What holds of a timing m of the mode w x h at some rate: it is that mode, its
\* clock and its totals give the rate, the words captured for it are those it
\* derives.
RateHolds(m, rate) ==
    LET pixels == m.htotal * m.vtotal
    IN  Vrefresh(m) = rate /\ ((m.clock \div 10) * 10000 + pixels \div 2) \div pixels = rate

InOrderAcross(m) ==
    /\ m.hdisplay \in Int /\ m.htotal \in Int /\ m.hsync_start \in Int /\ m.hsync_end \in Int
    /\ m.hsync_end < m.htotal
    /\ m.vdisplay \in Int /\ m.vtotal \in Int /\ m.vsync_start \in Int /\ m.vsync_end \in Int
    /\ m.vsync_end < m.vtotal

WordsHold(m) ==
    /\ "vinv" \in ModeProfile(m).sync <=> "vinv" \in m.flags
    /\ "st2084" \notin ModeProfile(m).sync
    /\ ModeProfile(m).vic = VicWord(CeaVic(m))

TimingHolds(m, w, h, rate, clock) ==
    /\ m.hdisplay = w /\ m.vdisplay = h /\ m.clock = clock
    /\ RateHolds(m, rate) /\ InOrderAcross(m) /\ WordsHold(m)

LEMMA Cta720p == TimingHolds(TimingOf(<<1280, 720, 60>>), 1280, 720, 60, 74250)
<1> DEFINE r == <<1280, 720, 60>>
           m == TimingOf(r)
<1>1. m = DisplayMode(74250, Cta720[1], Cta720[2], FALSE)
  <2>1. r[1] = 1280 /\ r[3] = 60
    BY SMT
  <2> HIDE DEF r
  <2> QED
    BY <2>1, SMT DEF TimingOf
<1> HIDE DEF m
<1>2. /\ m.clock = 74250 /\ m.hdisplay = 1280 /\ m.hsync_start = 1390 /\ m.hsync_end = 1430
      /\ m.htotal = 1650 /\ m.vdisplay = 720 /\ m.vsync_start = 725 /\ m.vsync_end = 730
      /\ m.vtotal = 750 /\ m.flags = {}
  BY <1>1, SMTT(30) DEF DisplayMode, Cta720
<1>3. RateHolds(m, 60)
  BY <1>2, SMT DEF RateHolds, Vrefresh, CeilDiv
<1>4. InOrderAcross(m)
  BY <1>2, SMT DEF InOrderAcross
<1>5. ModeProfile(m) = [sync |-> SyncFlags(m), vic |-> VicWord(CeaVic(m))]
  BY <1>2, SMT DEF ModeProfile
<1>6. WordsHold(m)
  BY <1>2, <1>5, SMTT(30) DEF WordsHold, SyncFlags
<1> QED
  BY <1>2, <1>3, <1>4, <1>6, SMTT(30) DEF TimingHolds, m

LEMMA Cta1080p == TimingHolds(TimingOf(<<1920, 1080, 60>>), 1920, 1080, 60, 148500)
<1> DEFINE r == <<1920, 1080, 60>>
           m == TimingOf(r)
<1>1. m = DisplayMode(148500, Cta1080[1], Cta1080[2], FALSE)
  <2>1. r[1] = 1920 /\ r[3] = 60
    BY SMT
  <2> HIDE DEF r
  <2> QED
    BY <2>1, SMT DEF TimingOf
<1> HIDE DEF m
<1>2. /\ m.clock = 148500 /\ m.hdisplay = 1920 /\ m.hsync_start = 2008 /\ m.hsync_end = 2052
      /\ m.htotal = 2200 /\ m.vdisplay = 1080 /\ m.vsync_start = 1084 /\ m.vsync_end = 1089
      /\ m.vtotal = 1125 /\ m.flags = {}
  BY <1>1, SMT DEF DisplayMode, Cta1080
<1>3. RateHolds(m, 60)
  BY <1>2, SMT DEF RateHolds, Vrefresh, CeilDiv
<1>4. InOrderAcross(m)
  BY <1>2, SMT DEF InOrderAcross
<1>5. ModeProfile(m) = [sync |-> {"base"}, vic |-> [aspect |-> "16:9", vic |-> 16]]
  BY <1>2, SMT DEF ModeProfile
<1>6. WordsHold(m)
  <2>1. CeaVic(m) = 16
    BY <1>2, SMT DEF CeaVic
  <2>2. VicWord(CeaVic(m)) = [aspect |-> "16:9", vic |-> 16]
    BY <2>1, SMT DEF VicWord, VIC_ASPECT_16_9
  <2> QED
    BY <1>2, <1>5, <2>2, SMT DEF WordsHold
<1> QED
  BY <1>2, <1>3, <1>4, <1>6, SMT DEF TimingHolds, m

LEMMA Cta1080p120 == TimingHolds(TimingOf(<<1920, 1080, 120>>), 1920, 1080, 120, 297000)
<1> DEFINE r == <<1920, 1080, 120>>
           m == TimingOf(r)
<1>1. m = DisplayMode(297000, Cta1080[1], Cta1080[2], FALSE)
  <2>1. r[1] = 1920 /\ r[3] = 120
    BY SMT
  <2> HIDE DEF r
  <2> QED
    BY <2>1, SMT DEF TimingOf
<1> HIDE DEF m
<1>2. /\ m.clock = 297000 /\ m.hdisplay = 1920 /\ m.hsync_start = 2008 /\ m.hsync_end = 2052
      /\ m.htotal = 2200 /\ m.vdisplay = 1080 /\ m.vsync_start = 1084 /\ m.vsync_end = 1089
      /\ m.vtotal = 1125 /\ m.flags = {}
  BY <1>1, SMT DEF DisplayMode, Cta1080
<1>3. RateHolds(m, 120)
  BY <1>2, SMT DEF RateHolds, Vrefresh, CeilDiv
<1>4. InOrderAcross(m)
  BY <1>2, SMT DEF InOrderAcross
<1>5. ModeProfile(m) = [sync |-> {"base"}, vic |-> [aspect |-> "none", vic |-> 63]]
  BY <1>2, SMT DEF ModeProfile
<1>6. WordsHold(m)
  <2>1. CeaVic(m) = 63
    BY <1>2, SMT DEF CeaVic
  <2>2. VicWord(CeaVic(m)) = [aspect |-> "none", vic |-> 63]
    BY <2>1, SMT DEF VicWord, VIC_ASPECT_16_9
  <2> QED
    BY <1>2, <1>5, <2>2, SMT DEF WordsHold
<1> QED
  BY <1>2, <1>3, <1>4, <1>6, SMT DEF TimingHolds, m

LEMMA Cvt1440p == TimingHolds(TimingOf(<<2560, 1440, 60>>), 2560, 1440, 60, 241500)
<1> DEFINE r == <<2560, 1440, 60>>
           m == TimingOf(r)
<1>1. m = DisplayMode(241500, <<2560, 2608, 2640, 2720>>, <<1440, 1443, 1448, 1481>>, TRUE)
  <2>1. r[1] = 2560 /\ r[3] = 60
    BY SMT
  <2> HIDE DEF r
  <2> QED
    BY <2>1, SMT DEF TimingOf
<1> HIDE DEF m
<1>2. /\ m.clock = 241500 /\ m.hdisplay = 2560 /\ m.hsync_start = 2608 /\ m.hsync_end = 2640
      /\ m.htotal = 2720 /\ m.vdisplay = 1440 /\ m.vsync_start = 1443 /\ m.vsync_end = 1448
      /\ m.vtotal = 1481 /\ m.flags = {"vinv"}
  BY <1>1, SMT DEF DisplayMode
<1>3. RateHolds(m, 60)
  BY <1>2, SMT DEF RateHolds, Vrefresh, CeilDiv
<1>4. InOrderAcross(m)
  BY <1>2, SMT DEF InOrderAcross
<1>5. ModeProfile(m) = [sync |-> {"base", "vinv"}, vic |-> [aspect |-> "none", vic |-> 0]]
  BY <1>2, SMT DEF ModeProfile
<1>6. WordsHold(m)
  <2>1. CeaVic(m) = 0
    BY <1>2, SMT DEF CeaVic
  <2>2. VicWord(CeaVic(m)) = [aspect |-> "none", vic |-> 0]
    BY <2>1, SMT DEF VicWord, VIC_ASPECT_16_9
  <2> QED
    BY <1>2, <1>5, <2>2, SMT DEF WordsHold
<1> QED
  BY <1>2, <1>3, <1>4, <1>6, SMT DEF TimingHolds, m

LEMMA Cvt1440p120 == TimingHolds(TimingOf(<<2560, 1440, 120>>), 2560, 1440, 120, 497750)
<1> DEFINE r == <<2560, 1440, 120>>
           m == TimingOf(r)
<1>1. m = DisplayMode(497750, <<2560, 2608, 2640, 2720>>, <<1440, 1443, 1448, 1525>>, TRUE)
  <2>1. r[1] = 2560 /\ r[3] = 120
    BY SMT
  <2> HIDE DEF r
  <2> QED
    BY <2>1, SMT DEF TimingOf
<1> HIDE DEF m
<1>2. /\ m.clock = 497750 /\ m.hdisplay = 2560 /\ m.hsync_start = 2608 /\ m.hsync_end = 2640
      /\ m.htotal = 2720 /\ m.vdisplay = 1440 /\ m.vsync_start = 1443 /\ m.vsync_end = 1448
      /\ m.vtotal = 1525 /\ m.flags = {"vinv"}
  BY <1>1, SMT DEF DisplayMode
<1>3. RateHolds(m, 120)
  BY <1>2, SMT DEF RateHolds, Vrefresh, CeilDiv
<1>4. InOrderAcross(m)
  BY <1>2, SMT DEF InOrderAcross
<1>5. ModeProfile(m) = [sync |-> {"base", "vinv"}, vic |-> [aspect |-> "none", vic |-> 0]]
  BY <1>2, SMT DEF ModeProfile
<1>6. WordsHold(m)
  <2>1. CeaVic(m) = 0
    BY <1>2, SMT DEF CeaVic
  <2>2. VicWord(CeaVic(m)) = [aspect |-> "none", vic |-> 0]
    BY <2>1, SMT DEF VicWord, VIC_ASPECT_16_9
  <2> QED
    BY <1>2, <1>5, <2>2, SMT DEF WordsHold
<1> QED
  BY <1>2, <1>3, <1>4, <1>6, SMT DEF TimingHolds, m

LEMMA Cvt2160p == TimingHolds(TimingOf(<<3840, 2160, 60>>), 3840, 2160, 60, 533120)
<1> DEFINE r == <<3840, 2160, 60>>
           m == TimingOf(r)
<1>1. m = DisplayMode(533120, <<3840, 3888, 3920, 4000>>, <<2160, 2163, 2168, 2222>>, TRUE)
  <2>1. r[1] = 3840 /\ r[3] = 60
    BY SMT
  <2> HIDE DEF r
  <2> QED
    BY <2>1, SMT DEF TimingOf
<1> HIDE DEF m
<1>2. /\ m.clock = 533120 /\ m.hdisplay = 3840 /\ m.hsync_start = 3888 /\ m.hsync_end = 3920
      /\ m.htotal = 4000 /\ m.vdisplay = 2160 /\ m.vsync_start = 2163 /\ m.vsync_end = 2168
      /\ m.vtotal = 2222 /\ m.flags = {"vinv"}
  BY <1>1, SMT DEF DisplayMode
<1>3. RateHolds(m, 60)
  BY <1>2, SMT DEF RateHolds, Vrefresh, CeilDiv
<1>4. InOrderAcross(m)
  BY <1>2, SMT DEF InOrderAcross
<1>5. ModeProfile(m) = [sync |-> SyncFlags(m), vic |-> VicWord(CeaVic(m))]
  BY <1>2, SMT DEF ModeProfile
<1>6. WordsHold(m)
  BY <1>2, <1>5, SMT DEF WordsHold, SyncFlags
<1> QED
  BY <1>2, <1>3, <1>4, <1>6, SMT DEF TimingHolds, m

LEMMA EveryTiming ==
  ASSUME NEW r \in DOMAIN Timings
  PROVE  /\ r = <<r[1], r[2], r[3]>> /\ r[1] \in Nat /\ r[2] \in Nat
         /\ TimingHolds(Timings[r], r[1], r[2], r[3], Timings[r].clock)
<1>1. r \in Profiles /\ Timings[r] = TimingOf(r)
  BY Zenon DEF Timings
<1>2. ASSUME NEW w, NEW h, NEW rate, NEW clock, w \in Nat, h \in Nat, r = <<w, h, rate>>,
             TimingHolds(TimingOf(<<w, h, rate>>), w, h, rate, clock)
      PROVE  /\ r = <<r[1], r[2], r[3]>> /\ r[1] \in Nat /\ r[2] \in Nat
             /\ TimingHolds(Timings[r], r[1], r[2], r[3], Timings[r].clock)
  <2>1. r[1] = w /\ r[2] = h /\ r[3] = rate
    BY <1>2, SMT
  <2>2. TimingHolds(Timings[r], r[1], r[2], r[3], clock)
    BY <1>1, <1>2, <2>1, Zenon
  <2>3. Timings[r].clock = clock
    BY <2>2, Zenon DEF TimingHolds
  <2> QED
    BY <1>2, <2>1, <2>2, <2>3, Zenon
<1>3. CASE r = <<1280, 720, 60>>
  BY <1>2, <1>3, Cta720p, SMT
<1>4. CASE r = <<1920, 1080, 60>>
  BY <1>2, <1>4, Cta1080p, SMT
<1>5. CASE r = <<1920, 1080, 120>>
  BY <1>2, <1>5, Cta1080p120, SMT
<1>6. CASE r = <<2560, 1440, 60>>
  BY <1>2, <1>6, Cvt1440p, SMT
<1>7. CASE r = <<2560, 1440, 120>>
  BY <1>2, <1>7, Cvt1440p120, SMT
<1>8. CASE r = <<3840, 2160, 60>>
  BY <1>2, <1>8, Cvt2160p, SMTT(30)
<1> QED
  BY <1>1, <1>3, <1>4, <1>5, <1>6, <1>7, <1>8, SMTT(30) DEF Profiles

\* The facts of each family's profile.
LEMMA DockIs ==
  ASSUME family \in Families
  PROVE  \/ /\ family = "Ella" /\ TenBit = FALSE /\ Dock.tables = "Narrow"
            /\ Dock.strip_blocks_x = 8 /\ Dock.dock_buffers = 3
         \/ /\ family = "Ridge" /\ TenBit = FALSE /\ Dock.tables = "Wide"
            /\ Dock.strip_blocks_x = 8 /\ Dock.dock_buffers = 2
         \/ /\ family = "Navarro" /\ TenBit = TRUE /\ Dock.tables = "Wide"
            /\ Dock.strip_blocks_x = 16 /\ Dock.dock_buffers = 3
  BY SMT DEF Families, Links, LINK_ELLA, LINK_RIDGE, LINK_NAVARRO, TenBit, Dock

LEMMA Powers ==
  ASSUME NEW c \in 0 .. 15, NEW d \in 0 .. 15
  PROVE  (2^c = 2^d => c = d) /\ (2^(2 * c) = 2^(2 * d) => c = d)
<1> DEFINE P(n) == 2^n
           Q(n) == 2^(2 * n)
<1>1. /\ P(0) = 1 /\ P(1) = 2 /\ P(2) = 4 /\ P(3) = 8 /\ P(4) = 16 /\ P(5) = 32
      /\ P(6) = 64 /\ P(7) = 128 /\ P(8) = 256 /\ P(9) = 512 /\ P(10) = 1024 /\ P(11) = 2048
      /\ P(12) = 4096 /\ P(13) = 8192 /\ P(14) = 16384 /\ P(15) = 32768
  BY SMT
<1>2. /\ Q(0) = 1 /\ Q(1) = 4 /\ Q(2) = 16 /\ Q(3) = 64 /\ Q(4) = 256 /\ Q(5) = 1024
      /\ Q(6) = 4096 /\ Q(7) = 16384 /\ Q(8) = 65536 /\ Q(9) = 262144 /\ Q(10) = 1048576 /\ Q(11) = 4194304
      /\ Q(12) = 16777216 /\ Q(13) = 67108864 /\ Q(14) = 268435456 /\ Q(15) = 1073741824
  BY SMT
<1> HIDE DEF P, Q
<1>3. P(c) = P(d) => c = d
  BY <1>1, SMT
<1>4. Q(c) = Q(d) => c = d
  BY <1>2, SMT
<1> QED
  BY <1>3, <1>4, Zenon DEF P, Q

\* A table whose last entry that is not zero stands at place last.
LEMMA TableEnds ==
  ASSUME NEW tables, NEW codes, NEW size \in Nat, DOMAIN codes = 1 .. size,
         NEW last \in 1 .. size, codes[last] # 0, \A j \in 1 .. size : j > last => codes[j] = 0,
         NEW ceiling \in 0 .. 15, codes[last] = IF tables = "Wide" THEN 2^(2 * ceiling) ELSE 2^ceiling
  PROVE  Ceiling(tables, codes) = ceiling
<1> DEFINE end == CHOOSE i \in DOMAIN codes :
                      codes[i] # 0 /\ \A j \in DOMAIN codes : j > i => codes[j] = 0
           Power(c) == IF tables = "Wide" THEN 2^(2 * c) ELSE 2^c
<1>1. \A i \in 1 .. size : codes[i] # 0 /\ (\A j \in 1 .. size : j > i => codes[j] = 0) => i = last
  <2> SUFFICES ASSUME NEW i \in 1 .. size, codes[i] # 0, \A j \in 1 .. size : j > i => codes[j] = 0,
                      i # last
               PROVE  FALSE
    BY Zenon
  <2>1. ~(i > last) /\ ~(last > i)
    BY Zenon
  <2> QED
    BY <2>1, SMT
<1>2. end = last
  BY <1>1, Zenon
<1> HIDE DEF end
<1>5. \A c \in 0 .. 15 : codes[end] = Power(c) => c = ceiling
  BY <1>2, Powers, Zenon
<1>6. codes[end] = Power(ceiling)
  BY <1>2, Zenon
<1>7. (CHOOSE c \in 0 .. 15 : codes[end] = Power(c)) = ceiling
  BY <1>5, <1>6, Zenon
<1> QED
  BY <1>7, Zenon DEF Ceiling, end

LEMMA NarrowCeiling == Ceilings("Narrow", BuildConfig("Narrow", FALSE)).dc = 10
<1> DEFINE codes == NARROW_CODE_TABLES[3]
<1>1. BuildConfig("Narrow", FALSE).codes[3] = codes
  BY SMT DEF BuildConfig
<1>2. DOMAIN codes = 1 .. 20 /\ codes[20] = 1024
  BY SMT DEF NARROW_CODE_TABLES
<1> HIDE DEF codes
<1>3. /\ 20 \in Nat /\ 20 \in 1 .. 20 /\ codes[20] # 0 /\ 10 \in 0 .. 15 /\ codes[20] = 2^10
  BY <1>2, SMT
<1>4. Ceiling("Narrow", codes) = 10
  <2> DEFINE last == 20
             size == 20
  <2>1. codes[last] = IF "Narrow" = "Wide" THEN 2^(2 * 10) ELSE 2^10
    BY <1>3, SMT
  <2>2. DOMAIN codes = 1 .. size
    BY <1>2, SMT
  <2>3. size \in Nat /\ last \in 1 .. size /\ codes[last] # 0 /\ 10 \in 0 .. 15
    BY <1>3, Zenon
  <2>4. \A j \in 1 .. size : j > last => codes[j] = 0
    BY SMT
  <2> HIDE DEF last, size
  <2> QED
    BY <2>1, <2>2, <2>3, <2>4, TableEnds, Zenon
<1> QED
  BY <1>1, <1>4, Zenon DEF Ceilings

LEMMA WideCeiling == Ceilings("Wide", BuildConfig("Wide", FALSE)).dc = 10
<1> DEFINE codes == CODE_TABLES[3]
<1>1. BuildConfig("Wide", FALSE).codes[3] = codes
  BY SMT DEF BuildConfig
<1>2. /\ DOMAIN codes = 1 .. 24 /\ codes[19] = 1048576
      /\ codes[20] = 0 /\ codes[21] = 0 /\ codes[22] = 0 /\ codes[23] = 0 /\ codes[24] = 0
  BY SMT DEF CODE_TABLES
<1> HIDE DEF codes
<1>3. 24 \in Nat /\ 19 \in 1 .. 24 /\ codes[19] # 0 /\ 10 \in 0 .. 15 /\ codes[19] = 2^(2 * 10)
  BY <1>2, SMT
<1>4. \A j \in 1 .. 24 : j > 19 => codes[j] = 0
  BY <1>2, SMT
<1>5. Ceiling("Wide", codes) = 10
  <2>1. codes[19] = IF "Wide" = "Wide" THEN 2^(2 * 10) ELSE 2^10
    BY <1>3, SMT
  <2>2. DOMAIN codes = 1 .. 24
    BY <1>2, SMT
  <2> QED
    BY <1>3, <1>4, <2>1, <2>2, TableEnds, Zenon
<1> QED
  BY <1>1, <1>5, Zenon DEF Ceilings

LEMMA DeepCeiling == Ceilings("Wide", BuildConfig("Wide", TRUE)).dc = 12
<1> DEFINE codes == CodeTable(11)
<1>1. BuildConfig("Wide", TRUE).codes[3] = codes
  <2>1. DEEP_NATURALS[3] = 11
    BY SMT DEF DEEP_NATURALS
  <2>2. BuildConfig("Wide", TRUE).codes[3] = CodeTable(DEEP_NATURALS[3])
    BY SMT DEF BuildConfig
  <2> QED
    BY <2>1, <2>2, Zenon
<1>2. DOMAIN codes = 1 .. 24
  BY SMT DEF CodeTable
<1>3. codes[23] = 2^24 /\ codes[24] = 0
  <2> DEFINE At(i) == CASE i % 2 = 0 /\ i \div 2 <= 11 -> 2^(i \div 2) * (2^(i \div 2 + 1) - 1)
                        [] i = 2 * 11 + 1 -> 2^(2 * 11 + 2)
                        [] OTHER -> 0
  <2>1. codes[23] = At(23) /\ codes[24] = At(24)
    BY SMT DEF CodeTable
  <2>2. At(23) = 2^24 /\ At(24) = 0
    BY SMT
  <2> QED
    BY <2>1, <2>2, SMT
<1> HIDE DEF codes
<1>4. 24 \in Nat /\ 23 \in 1 .. 24 /\ codes[23] # 0 /\ 12 \in 0 .. 15 /\ codes[23] = 2^(2 * 12)
  BY <1>3, SMT
<1>5. \A j \in 1 .. 24 : j > 23 => codes[j] = 0
  BY <1>3, SMT
<1>6. Ceiling("Wide", codes) = 12
  <2>1. codes[23] = IF "Wide" = "Wide" THEN 2^(2 * 12) ELSE 2^12
    BY <1>4, SMT
  <2> QED
    BY <1>2, <1>4, <1>5, <2>1, TableEnds, Zenon
<1> QED
  BY <1>1, <1>6, Zenon DEF Ceilings

\* A surface in whole strips covers the picture by less than one.
LEMMA Padded ==
  ASSUME NEW v \in Nat, NEW u \in {8, 16, 64, 128}
  PROVE  /\ CeilDiv(v, u) * u \in Nat /\ CeilDiv(v, u) * u - v \in 0 .. u - 1
         /\ CeilDiv(v, u) * u = u * ((v + u - 1) \div u)
<1>1. CASE u = 8
  BY <1>1, SMT DEF CeilDiv
<1>2. CASE u = 16
  BY <1>2, SMT DEF CeilDiv
<1>3. CASE u = 64
  BY <1>3, SMT DEF CeilDiv
<1>4. CASE u = 128
  <2>1. /\ CeilDiv(v, 128) * 128 - v >= 0 /\ CeilDiv(v, 128) * 128 - v <= 127
        /\ CeilDiv(v, 128) * 128 \in Nat
    BY SMT DEF CeilDiv
  <2> DEFINE w == CeilDiv(v, 128) * 128
  <2>2. w = 128 * ((v + 128 - 1) \div 128)
    BY SMT DEF CeilDiv
  <2> HIDE DEF w
  <2>3. w - v \in 0 .. 128 - 1
    BY <2>1, SMT DEF w
  <2> QED
    BY <1>4, <2>1, <2>2, <2>3, SMT DEF w
<1> QED
  BY <1>1, <1>2, <1>3, <1>4, Zenon

\* The set-mode of a timing.
LEMMA ModeFields ==
  ASSUME NEW r, family \in Families
  PROVE  LET t == ModeOf(r)
             m == Timings[r]
         IN  /\ t.hactive = m.hdisplay /\ t.hblank = m.htotal - m.hdisplay
             /\ t.hfront = m.hsync_start - m.hdisplay /\ t.hwidth = m.hsync_end - m.hsync_start
             /\ t.vactive = m.vdisplay /\ t.vblank = m.vtotal - m.vdisplay
             /\ t.vfront = m.vsync_start - m.vdisplay /\ t.vwidth = m.vsync_end - m.vsync_start
             /\ t.flags = ModeProfile(m).sync \cup (IF TenBit THEN {"st2084"} ELSE {})
             /\ t.refresh = Vrefresh(m) /\ t.vic_word = ModeProfile(m).vic
             /\ t.alloc = Words(m.hdisplay, m.vdisplay, TenBit)
             /\ t.format = (IF TenBit THEN "NM30" ELSE "NM24")
             /\ t.depth = (IF TenBit THEN 30 ELSE 24)
             /\ t.clock = m.clock \div 10
<1> DEFINE t == ModeOf(r)
           m == Timings[r]
<1>1. t = SetMode(m, TenBit, FALSE)
  BY Zenon DEF ModeOf
<1> HIDE DEF t, m
<1>2. /\ t.hactive = m.hdisplay /\ t.hblank = m.htotal - m.hdisplay
      /\ t.hfront = m.hsync_start - m.hdisplay /\ t.hwidth = m.hsync_end - m.hsync_start
      /\ t.vactive = m.vdisplay /\ t.vblank = m.vtotal - m.vdisplay
      /\ t.vfront = m.vsync_start - m.vdisplay /\ t.vwidth = m.vsync_end - m.vsync_start
  BY <1>1, Zenon DEF SetMode
<1>3. /\ t.refresh = Vrefresh(m) /\ t.vic_word = ModeProfile(m).vic
      /\ t.alloc = Words(m.hdisplay, m.vdisplay, TenBit) /\ t.clock = m.clock \div 10
  BY <1>1, Zenon DEF SetMode
<1>4. /\ t.format = (IF TenBit THEN "NM30" ELSE "NM24") /\ t.depth = (IF TenBit THEN 30 ELSE 24)
  BY <1>1, Zenon DEF SetMode
<1>5. t.flags = ModeProfile(m).sync \cup (IF TenBit THEN {"st2084"} ELSE {})
  <2>1. t.flags = ModeProfile(m).sync \cup (IF TenBit THEN {"st2084"} ELSE {})
                                      \cup (IF FALSE THEN {"dual"} ELSE {})
    BY <1>1, Zenon DEF SetMode
  <2> QED
    BY <2>1, Zenon
<1> QED
  BY <1>2, <1>3, <1>4, <1>5, Zenon DEF t, m

LEMMA LitIsAsAsked == ModesInv => ModeIsAsAsked
<1> SUFFICES ASSUME ModesInv, NEW c \in Driven, mode_active[c]
             PROVE  LET t == told[c]
                        r == asked[c]
                        pixels == (t.hactive + t.hblank) * (t.vactive + t.vblank)
                        deep == t.format = "NM30"
                    IN  /\ <<t.hactive, t.vactive, t.refresh>> = r
                        /\ (t.clock * 10000 + pixels \div 2) \div pixels = r[3]
                        /\ t.hfront + t.hwidth < t.hblank /\ t.vfront + t.vwidth < t.vblank
                        /\ "vinv" \in t.flags <=> "vinv" \in Timings[r].flags
                        /\ t.vic_word = VicWord(CeaVic(Timings[r]))
                        /\ (t.depth = 30) = deep /\ ("st2084" \in t.flags) = deep
                        /\ (opened[c].format = 3) = deep
                        /\ Ceilings(Dock.tables, BuildConfig(Dock.tables, deep)).dc
                             = (IF deep THEN 12 ELSE 10)
                        /\ opened[c].width - r[1] \in 0 .. 8 * Dock.strip_blocks_x - 1
                        /\ opened[c].height - r[2] \in 0 .. 8 * (16 \div Dock.strip_blocks_x) - 1
  BY SMT DEF ModeIsAsAsked
<1> DEFINE t == told[c]
           r == asked[c]
           o == opened[c]
           m == Timings[r]
           pixels == (t.hactive + t.hblank) * (t.vactive + t.vblank)
           deep == t.format = "NM30"
           across == 8 * Dock.strip_blocks_x
           down == 8 * (16 \div Dock.strip_blocks_x)
<1>1. family \in Families /\ r \in DOMAIN Timings /\ t = ModeOf(r) /\ o = StreamModeHeader(r)
  BY Zenon DEF ModesInv, Runs
<1> HIDE DEF t, r, o
<1>2. r = <<r[1], r[2], r[3]>> /\ r[1] \in Nat /\ r[2] \in Nat
  BY <1>1, EveryTiming, Zenon
<1>3. TimingHolds(m, r[1], r[2], r[3], m.clock)
  BY <1>1, EveryTiming, Zenon
<1> HIDE DEF m
<1>4. m.hdisplay = r[1] /\ m.vdisplay = r[2] /\ RateHolds(m, r[3]) /\ InOrderAcross(m) /\ WordsHold(m)
  BY <1>3, Zenon DEF TimingHolds
<1>5. /\ t.hactive = m.hdisplay /\ t.hblank = m.htotal - m.hdisplay
      /\ t.hfront = m.hsync_start - m.hdisplay /\ t.hwidth = m.hsync_end - m.hsync_start
      /\ t.vactive = m.vdisplay /\ t.vblank = m.vtotal - m.vdisplay
      /\ t.vfront = m.vsync_start - m.vdisplay /\ t.vwidth = m.vsync_end - m.vsync_start
  BY <1>1, ModeFields, Zenon DEF m
<1>6. /\ t.flags = ModeProfile(m).sync \cup (IF TenBit THEN {"st2084"} ELSE {})
      /\ t.refresh = Vrefresh(m) /\ t.vic_word = ModeProfile(m).vic /\ t.clock = m.clock \div 10
      /\ t.format = (IF TenBit THEN "NM30" ELSE "NM24") /\ t.depth = (IF TenBit THEN 30 ELSE 24)
  BY <1>1, ModeFields, Zenon DEF m
<1>7. <<t.hactive, t.vactive, t.refresh>> = r
  <2>1. Vrefresh(m) = r[3]
    BY <1>4, SMT DEF RateHolds
  <2>2. t.hactive = r[1] /\ t.vactive = r[2] /\ t.refresh = r[3]
    BY <1>4, <1>5, <1>6, <2>1, Zenon
  <2>3. <<t.hactive, t.vactive, t.refresh>> = <<r[1], r[2], r[3]>>
    BY <2>2, Zenon
  <2> QED
    BY <1>2, <2>3, Zenon
<1>8. (t.clock * 10000 + pixels \div 2) \div pixels = r[3]
  <2>1. t.hactive + t.hblank = m.htotal /\ t.vactive + t.vblank = m.vtotal
    BY <1>4, <1>5, SMT DEF InOrderAcross
  <2>2. pixels = m.htotal * m.vtotal
    BY <2>1, Zenon
  <2>3. t.clock = m.clock \div 10
    BY <1>6, Zenon
  <2> HIDE DEF pixels
  <2>4. ((m.clock \div 10) * 10000 + pixels \div 2) \div pixels = r[3]
    BY <1>4, <2>2, SMT DEF RateHolds
  <2> QED
    BY <2>3, <2>4, SMT
<1>9. t.hfront + t.hwidth < t.hblank /\ t.vfront + t.vwidth < t.vblank
  BY <1>4, <1>5, SMT DEF InOrderAcross
<1>10. TenBit \in BOOLEAN /\ deep = TenBit
  <2>1. TenBit \in BOOLEAN
    BY <1>1, DockIs, Zenon
  <2>2. t.format = (IF TenBit THEN "NM30" ELSE "NM24")
    BY <1>6, Zenon
  <2> QED
    BY <2>1, <2>2, SMT
<1>11. ("vinv" \in t.flags <=> "vinv" \in m.flags) /\ ("st2084" \in t.flags) = deep
  <2>1. ("vinv" \in ModeProfile(m).sync <=> "vinv" \in m.flags) /\ "st2084" \notin ModeProfile(m).sync
    BY <1>4, Zenon DEF WordsHold
  <2> HIDE DEF deep
  <2> QED
    BY <1>6, <1>10, <2>1, SMTT(30)
<1>12. t.vic_word = VicWord(CeaVic(m))
  BY <1>4, <1>6, Zenon DEF WordsHold
<1>13. (t.depth = 30) = deep
  <2>1. t.depth = (IF TenBit THEN 30 ELSE 24)
    BY <1>6, Zenon
  <2> HIDE DEF deep
  <2> QED
    BY <1>10, <2>1, SMTT(30)
<1>14. o = [format |-> IF TenBit THEN 3 ELSE 2,
            width |-> CeilDiv(r[1], across) * across, height |-> CeilDiv(r[2], down) * down]
  BY <1>1, Zenon DEF StreamModeHeader, ModeHeader
<1>15. /\ o.format = (IF TenBit THEN 3 ELSE 2) /\ o.width = CeilDiv(r[1], across) * across
       /\ o.height = CeilDiv(r[2], down) * down
  BY <1>14, Zenon
<1>16. (o.format = 3) = deep
  <2> HIDE DEF deep
  <2> QED
    BY <1>10, <1>15, SMT
<1>17. across \in {64, 128} /\ down \in {8, 16}
  <2> DEFINE bx == Dock.strip_blocks_x
  <2>1. bx = 8 \/ bx = 16
    BY <1>1, DockIs, Zenon
  <2> HIDE DEF bx
  <2>2. 8 * bx \in {64, 128} /\ 8 * (16 \div bx) \in {8, 16}
    BY <2>1, SMTT(30)
  <2> QED
    BY <2>2, Zenon DEF bx
<1>18. o.width - r[1] \in 0 .. across - 1 /\ o.height - r[2] \in 0 .. down - 1
  <2> HIDE DEF across, down
  <2> QED
    BY <1>2, <1>15, <1>17, Padded, SMTT(30)
<1>19. Ceilings(Dock.tables, BuildConfig(Dock.tables, deep)).dc = (IF deep THEN 12 ELSE 10)
  <2> HIDE DEF deep
  <2>1. CASE TenBit = FALSE /\ Dock.tables = "Narrow"
    BY <1>10, <2>1, NarrowCeiling, Zenon
  <2>2. CASE TenBit = FALSE /\ Dock.tables = "Wide"
    BY <1>10, <2>2, WideCeiling, Zenon
  <2>3. CASE TenBit = TRUE /\ Dock.tables = "Wide"
    BY <1>10, <2>3, DeepCeiling, Zenon
  <2> QED
    BY <1>1, <2>1, <2>2, <2>3, DockIs, Zenon
<1> QED
  BY <1>7, <1>8, <1>9, <1>11, <1>12, <1>13, <1>16, <1>18, <1>19, SMTT(30)
     DEF t, r, o, m

(***************************************************************************)
(* The ring.  SizeIs names the four sizes of a picture, Partition the      *)
(* bytes the property bounds the ring by.                                  *)
(***************************************************************************)
SizeIs(w, h) ==
    \/ w = 1280 /\ h = 720
    \/ w = 1920 /\ h = 1080
    \/ w = 2560 /\ h = 1440
    \/ w = 3840 /\ h = 2160

Partition(w, h) ==
    IF family = "Ella" THEN PARTITION
    ELSE IF family = "Ridge" THEN 16384 * 24576 * 3
    ELSE RenderStride(w) * MEASURED_ROWS(w, h) * 3

\* No picture of 3840 columns is within the clock of a DL-3x00.
Carried(w) == family = "Ella" => w # 3840

RingHolds(w, h) ==
    LET a == Words(w, h, TenBit)
    IN  /\ a.stride >= w
        /\ a.rows \in Nat /\ a.rows >= Dock.dock_buffers * (h + 8)
        /\ a.stride * a.rows * (IF TenBit THEN 4 ELSE 3) <= Partition(w, h)

LEMMA Sizes ==
  ASSUME NEW r \in DOMAIN Timings
  PROVE  /\ SizeIs(r[1], r[2])
         /\ r[1] = 3840 => Timings[r].clock = 533120
<1>1. r \in Profiles /\ Timings[r] = TimingOf(r)
  BY Zenon DEF Timings
<1>2. SizeIs(r[1], r[2]) /\ (r[1] = 3840 => r = <<3840, 2160, 60>>)
  <2>1. r = <<3840, 2160, 60>> => r[1] = 3840 /\ r[2] = 2160
    BY SMT
  <2>2. ASSUME NEW w, NEW h, NEW rate, r = <<w, h, rate>>, SizeIs(w, h), w # 3840
        PROVE  SizeIs(r[1], r[2]) /\ r[1] # 3840
    BY <2>2, SMT
  <2>3. /\ SizeIs(1280, 720) /\ SizeIs(1920, 1080) /\ SizeIs(2560, 1440) /\ SizeIs(3840, 2160)
    BY SMT DEF SizeIs
  <2>4. CASE r = <<1280, 720, 60>>
    BY <2>2, <2>3, <2>4, SMTT(30)
  <2>5. CASE r = <<1920, 1080, 60>>
    BY <2>2, <2>3, <2>5, SMTT(30)
  <2>6. CASE r = <<1920, 1080, 120>>
    BY <2>2, <2>3, <2>6, SMTT(30)
  <2>7. CASE r = <<2560, 1440, 60>>
    BY <2>2, <2>3, <2>7, SMTT(30)
  <2>8. CASE r = <<2560, 1440, 120>>
    BY <2>2, <2>3, <2>8, SMTT(30)
  <2>9. CASE r = <<3840, 2160, 60>>
    BY <2>1, <2>3, <2>9, SMTT(30)
  <2> QED
    BY <1>1, <2>4, <2>5, <2>6, <2>7, <2>8, <2>9, SMTT(30) DEF Profiles
<1>3. TimingOf(<<3840, 2160, 60>>).clock = 533120
  BY Cvt2160p, SMT DEF TimingHolds
<1> QED
  BY <1>1, <1>2, <1>3, SMTT(30)

\* A row of the surface is a row of the picture, and a column a few lines more.
LEMMA Surface ==
  ASSUME NEW w, NEW h, SizeIs(w, h), NEW bx, bx = 8 \/ bx = 16
  PROVE  /\ CeilDiv(w, 8 * bx) * (8 * bx) = w
         /\ CeilDiv(h, 8 * (16 \div bx)) * (8 * (16 \div bx)) \in Nat
         /\ CeilDiv(h, 8 * (16 \div bx)) * (8 * (16 \div bx)) <= h + 8
<1>1. CASE bx = 8
  <2>1. 8 * bx = 64 /\ 8 * (16 \div bx) = 16
    BY <1>1, SMT
  <2>2. CeilDiv(w, 64) * 64 = w
    BY SMT DEF SizeIs, CeilDiv
  <2>3. CeilDiv(h, 16) * 16 \in Nat /\ CeilDiv(h, 16) * 16 <= h + 8
    BY SMT DEF SizeIs, CeilDiv
  <2> QED
    BY <2>1, <2>2, <2>3, SMTT(30)
<1>2. CASE bx = 16
  <2>1. 8 * bx = 128 /\ 8 * (16 \div bx) = 8
    BY <1>2, SMTT(30)
  <2>2. CeilDiv(w, 128) * 128 = w
    BY SMT DEF SizeIs, CeilDiv
  <2>3. CeilDiv(h, 8) * 8 \in Nat /\ CeilDiv(h, 8) * 8 <= h + 8
    BY SMT DEF SizeIs, CeilDiv
  <2> QED
    BY <2>1, <2>2, <2>3, SMTT(30)
<1> QED
  BY <1>1, <1>2

LEMMA Strides ==
  /\ RenderStride(1280) = 1408 /\ RenderStride(1920) = 2048
  /\ RenderStride(2560) = 2688 /\ RenderStride(3840) = 3968
<1>1. 2^16 = 65536
  BY SMT
<1> QED
  BY <1>1, SMT DEF RenderStride, CeilDiv, STRIDE_ALIGN

\* The words of an allocation hold every buffer of the ring.
LEMMA WholeRing ==
  ASSUME NEW w, NEW h, SizeIs(w, h), family \in Families, Carried(w)
  PROVE  RingHolds(w, h)
<1> DEFINE a == Words(w, h, TenBit)
           stride == RenderStride(w)
           measured == MEASURED_ROWS(w, h)
<1>1. stride \in Nat /\ stride >= w
  BY Strides, SMTT(30) DEF SizeIs
<1>2. CASE family = "Ella" /\ TenBit = FALSE /\ Dock.dock_buffers = 3
  <2>1. a.stride = stride /\ a.rows = AtMost(2^16 - 1, PARTITION \div (stride * 3))
    BY <1>2, SMT DEF Words, BytesPerPixel
  <2>2. 2^16 = 65536 /\ 2^20 = 1048576
    BY SMT
  <2>3. PARTITION = 50331648
    BY <2>2, SMTT(30) DEF PARTITION
  <2>4. /\ a.rows \in Nat /\ a.rows >= 3 * (h + 8)
        /\ stride * a.rows * 3 <= PARTITION
    <3>1. CASE w = 1280 /\ h = 720
      <4>1. stride = 1408
        BY <3>1, Strides, SMTT(30)
      <4> QED
        BY <2>1, <2>2, <2>3, <3>1, <4>1, SMTT(30) DEF AtMost
    <3>2. CASE w = 1920 /\ h = 1080
      <4>1. stride = 2048
        BY <3>2, Strides, SMTT(30)
      <4> QED
        BY <2>1, <2>2, <2>3, <3>2, <4>1, SMTT(30) DEF AtMost
    <3>3. CASE w = 2560 /\ h = 1440
      <4>1. stride = 2688
        BY <3>3, Strides, SMT
      <4> QED
        BY <2>1, <2>2, <2>3, <3>3, <4>1, SMTT(30) DEF AtMost
    <3> QED
      BY <1>2, <3>1, <3>2, <3>3, SMTT(30) DEF SizeIs, Carried
  <2>5. Partition(w, h) = PARTITION
    BY <1>2, SMT DEF Partition
  <2> HIDE DEF a, stride
  <2> QED
    BY <1>1, <1>2, <2>1, <2>4, <2>5, SMTT(30) DEF RingHolds, a
<1>3. CASE family = "Ridge" /\ TenBit = FALSE /\ Dock.dock_buffers = 2
  <2>1. a.stride = 16384 /\ a.rows = 24576
    BY <1>3, SMT DEF Words
  <2>2. Partition(w, h) = 16384 * 24576 * 3
    BY <1>3, SMT DEF Partition
  <2>3. 16384 >= w /\ 24576 >= 2 * (h + 8)
    BY SMT DEF SizeIs
  <2> HIDE DEF a
  <2> QED
    BY <1>3, <2>1, <2>2, <2>3, SMTT(30) DEF RingHolds, a
<1>4. CASE family = "Navarro" /\ TenBit = TRUE /\ Dock.dock_buffers = 3
  <2>1. a.stride = stride /\ a.rows = (measured * 3) \div 4
    BY <1>4, SMT DEF Words, BytesPerPixel
  <2>2. Partition(w, h) = stride * measured * 3
    BY <1>4, SMT DEF Partition
  <2>3. measured \in Nat /\ measured >= 24576 /\ 18432 >= 3 * (h + 8)
    BY SMT DEF SizeIs, MEASURED_ROWS
  <2> HIDE DEF a, stride, measured
  <2>4. a.rows \in Nat /\ a.rows >= 18432 /\ a.rows * 4 <= measured * 3
    BY <2>1, <2>3, SMT
  <2>5. stride * (a.rows * 4) <= stride * (measured * 3)
    BY <1>1, <2>3, <2>4, SMTT(30)
  <2>6. /\ stride * a.rows * 4 = stride * (a.rows * 4)
        /\ stride * measured * 3 = stride * (measured * 3)
    BY <1>1, <2>3, <2>4, SMTT(30)
  <2> QED
    <3>1. h \in Nat
      BY SMT DEF SizeIs
    <3>2. a.rows >= 3 * (h + 8)
      BY <2>3, <2>4, <3>1, SMTT(30)
    <3>3. a.rows >= Dock.dock_buffers * (h + 8)
      BY <1>4, <3>2, SMTT(30)
    <3>4. stride * a.rows * 4 <= stride * measured * 3
      BY <2>5, <2>6, SMTT(30)
    <3>5. a.stride * a.rows * (IF TenBit THEN 4 ELSE 3) <= Partition(w, h)
      BY <1>4, <2>1, <2>2, <3>4, SMTT(30)
    <3>6. a.stride >= w
      BY <1>1, <2>1, SMTT(30)
    <3>7. a.rows \in Nat
      BY <2>4, SMT
    <3> QED
      BY <3>3, <3>5, <3>6, <3>7, SMTT(30) DEF RingHolds, a
<1> QED
  BY <1>2, <1>3, <1>4, DockIs, Zenon

LEMMA LitRingFits == ModesInv => RingIsAllocated
<1> SUFFICES ASSUME ModesInv, NEW c \in Driven, mode_active[c], 10 * told[c].clock <= MaxClock
             PROVE  /\ told[c].alloc.stride >= opened[c].width
                    /\ told[c].alloc.rows >= Dock.dock_buffers * opened[c].height
                    /\ told[c].alloc.stride * told[c].alloc.rows
                         * (IF told[c].format = "NM30" THEN 4 ELSE 3)
                         <= Partition(asked[c][1], asked[c][2])
  BY SMT DEF RingIsAllocated, Partition
<1> DEFINE t == told[c]
           r == asked[c]
           o == opened[c]
           m == Timings[r]
           w == r[1]
           h == r[2]
           a == Words(w, h, TenBit)
           bx == Dock.strip_blocks_x
           across == 8 * bx
           down == 8 * (16 \div bx)
<1>1. family \in Families /\ r \in DOMAIN Timings /\ t = ModeOf(r) /\ o = StreamModeHeader(r)
  BY Zenon DEF ModesInv, Runs
<1>2. 10 * t.clock <= MaxClock
  OBVIOUS
<1> HIDE DEF t, r, o
<1>3. SizeIs(w, h)
  BY <1>1, Sizes, SMTT(30)
<1>4. w \in Nat /\ h \in Nat /\ m.hdisplay = w /\ m.vdisplay = h
  BY <1>1, EveryTiming, SMT DEF TimingHolds
<1> HIDE DEF m
<1>5. t.alloc = Words(m.hdisplay, m.vdisplay, TenBit) /\ t.clock = m.clock \div 10
  BY <1>1, ModeFields, Zenon DEF m
<1>6. t.format = (IF TenBit THEN "NM30" ELSE "NM24")
  BY <1>1, ModeFields, Zenon DEF m
<1> HIDE DEF w, h
<1>7. t.alloc = a
  BY <1>4, <1>5, Zenon
<1> HIDE DEF a
<1>8. TenBit \in BOOLEAN /\ Dock.dock_buffers \in {2, 3} /\ (bx = 8 \/ bx = 16)
  BY <1>1, DockIs, Zenon
<1>9. Carried(w)
  <2>1. SUFFICES ASSUME family = "Ella", w = 3840 PROVE FALSE
    BY SMT DEF Carried
  <2>2. MaxClock = 148500
    BY <2>1, SMTT(30) DEF MaxClock
  <2>3. t.clock = 53312
    <3>1. m.clock = 533120
      BY <1>1, <2>1, Sizes, SMTT(30) DEF m, w
    <3> QED
      BY <1>5, <3>1, SMTT(30)
  <2> QED
    BY <1>2, <2>2, <2>3, SMTT(30)
<1>10. RingHolds(w, h)
  BY <1>1, <1>3, <1>9, WholeRing, Zenon
<1>11. /\ a.stride >= w /\ a.rows \in Nat /\ a.rows >= Dock.dock_buffers * (h + 8)
       /\ a.stride * a.rows * (IF TenBit THEN 4 ELSE 3) <= Partition(w, h)
  BY <1>10, Zenon DEF RingHolds, a
<1>12. (IF t.format = "NM30" THEN 4 ELSE 3) = (IF TenBit THEN 4 ELSE 3)
  BY <1>6, <1>8, SMTT(30)
<1>13. /\ o.width = CeilDiv(w, across) * across
       /\ o.height = CeilDiv(h, down) * down
  BY <1>1, Zenon DEF StreamModeHeader, ModeHeader, w, h
<1> HIDE DEF bx
<1>14. o.width = w /\ o.height \in Nat /\ o.height <= h + 8
  <2>1. bx = 8 \/ bx = 16
    BY <1>8
  <2>2. /\ CeilDiv(w, across) * across = w /\ CeilDiv(h, down) * down \in Nat
        /\ CeilDiv(h, down) * down <= h + 8
    BY <1>3, <2>1, Surface, SMTT(30)
  <2> HIDE DEF across, down
  <2> QED
    BY <1>13, <2>2, Zenon
<1> DEFINE n == Dock.dock_buffers
<1> HIDE DEF n
<1>15. n * o.height <= n * (h + 8)
  <2>1. n = 2 \/ n = 3
    BY <1>8, Zenon DEF n
  <2> QED
    BY <1>4, <1>14, <2>1, SMTT(30)
<1>16. a.rows >= n * o.height
  <2>1. n = 2 \/ n = 3
    BY <1>8, Zenon DEF n
  <2>2. a.rows \in Nat /\ a.rows >= n * (h + 8)
    BY <1>11, Zenon DEF n
  <2> QED
    BY <1>4, <1>14, <1>15, <2>1, <2>2, SMTT(30)
<1>17. /\ t.alloc.stride >= o.width /\ t.alloc.rows >= Dock.dock_buffers * o.height
       /\ t.alloc.stride * t.alloc.rows * (IF t.format = "NM30" THEN 4 ELSE 3) <= Partition(r[1], r[2])
  BY <1>7, <1>11, <1>12, <1>14, <1>16, Zenon DEF n, w, h
<1> QED
  BY <1>17, Zenon DEF t, o, r

\* Whatever sequence of mode sets a session makes, on whichever of the three
\* docks and with any number of monitors, a lit connector was told the timing,
\* the captured words and the one depth of the mode last asked of it.
THEOREM ModeIsAlwaysAsAsked == ModesSpec => []ModeIsAsAsked
<1>1. family \in Families /\ ModesInit => ModesInv
  BY ModesInitInv
<1>2. ModesInv /\ [ModesNext /\ UNCHANGED family]_<<family, modeVars>> => ModesInv'
  BY ModesStep
<1>3. ModesInv => ModeIsAsAsked
  BY LitIsAsAsked
<1> QED
  BY <1>1, <1>2, <1>3, PTL DEF ModesSpec

\* As long as the mode is within the clock the dock is known to carry, its
\* set-mode's allocation holds every picture of the connector's ring, in no
\* more than the bytes the partition was measured or derived from.
THEOREM RingIsAlwaysAllocated == ModesSpec => []RingIsAllocated
<1>1. family \in Families /\ ModesInit => ModesInv
  BY ModesInitInv
<1>2. ModesInv /\ [ModesNext /\ UNCHANGED family]_<<family, modeVars>> => ModesInv'
  BY ModesStep
<1>3. ModesInv => RingIsAllocated
  BY LitRingFits
<1> QED
  BY <1>1, <1>2, <1>3, PTL DEF ModesSpec
=============================================================================
