-------------------------- MODULE CardPartsProofs ---------------------------
(***************************************************************************)
(* The parts of a Revdi card that share no state with one another, each for*)
(* every value of its constants: the vblank timer, the damage list, the    *)
(* colour transform and the pointer.                                       *)
(***************************************************************************)
EXTENDS Vblank, DamageList, ColorPipeline, PointerPath, FiniteSetTheorems, WellFoundedInduction, TLAPS

\* The provers every leaf that names none is given, and their seconds.
USE ZenonT(10), SMTT(30)

(***************************************************************************)
(* Vblank: the timer never dies while vblanks are wanted, however often the*)
(* CRTC is enabled.  TimerAlive is inductive together with the types of the*)
(* variables: a callback that has decided to let the timer die ("dying")   *)
(* finds it queued again whenever enabled is set.                          *)
(***************************************************************************)

\* The CRTC callbacks, the timer's callback and shutdown leave every variable
\* of the vblank in its type (module/kms.rs).
THEOREM VblankTypeCorrect == Spec => []TypeOK
<1>1. Init => TypeOK
  <2>1. Init => enables \in 0 .. MaxEnables
    BY VblankAssumption DEF Init
  <2> QED
    BY <2>1, Zenon DEF Init, TypeOK
<1>2. TypeOK /\ [Next]_vars => TypeOK'
  <2> SUFFICES ASSUME TypeOK, [Next]_vars PROVE TypeOK'
    OBVIOUS
  <2> USE DEF TypeOK
  <2>1. CASE AtomicEnable
    <3>1. enables' \in 0 .. MaxEnables
      BY <2>1, VblankAssumption DEF AtomicEnable
    <3> QED
      BY <2>1, <3>1, Zenon DEF AtomicEnable, EnableVblank
  <2>2. CASE AtomicDisable
    BY <2>2 DEF AtomicDisable
  <2>3. CASE AtomicFlush
    BY <2>3 DEF AtomicFlush, EnableVblank
  <2>4. CASE StartTimer
    BY <2>4 DEF StartTimer
  <2>5. CASE TimerStep
    <3>1. CASE TimerFires
      BY <3>1 DEF TimerFires
    <3>2. CASE RunChecks
      BY <3>2 DEF RunChecks
    <3>3. CASE RunDelivers
      BY <3>3 DEF RunDelivers
    <3>4. CASE RunReturns
      BY <3>4 DEF RunReturns
    <3> QED
      BY <2>5, <3>1, <3>2, <3>3, <3>4 DEF TimerStep
  <2>6. CASE ShutdownTakes
    BY <2>6 DEF ShutdownTakes
  <2>7. CASE ShutdownCancels
    BY <2>7 DEF ShutdownCancels
  <2>8. CASE UNCHANGED vars
    BY <2>8 DEF vars
  <2> QED
    BY <2>1, <2>2, <2>3, <2>4, <2>5, <2>6, <2>7, <2>8 DEF Next
<1> QED
  BY <1>1, <1>2, PTL DEF Spec

\* While vblanks are wanted the timer is queued or in a callback that queues
\* it, whatever enable_vblank, disable_vblank and the callback interleave
\* (module/kms.rs).
THEOREM TimerAlwaysAlive == Spec => []TimerAlive
<1>1. Init => TimerAlive
  BY DEF Init, TimerAlive
<1>2. TypeOK /\ TimerAlive /\ [Next]_vars => TimerAlive'
  <2> SUFFICES ASSUME TypeOK, TimerAlive, [Next]_vars PROVE TimerAlive'
    OBVIOUS
  <2> USE DEF TypeOK, TimerAlive
  <2>1. CASE AtomicEnable
    BY <2>1 DEF AtomicEnable, EnableVblank
  <2>2. CASE AtomicDisable
    BY <2>2 DEF AtomicDisable
  <2>3. CASE AtomicFlush
    BY <2>3 DEF AtomicFlush, EnableVblank
  <2>4. CASE StartTimer
    BY <2>4 DEF StartTimer
  <2>5. CASE TimerFires
    BY <2>5 DEF TimerFires
  <2>6. CASE RunChecks
    BY <2>6 DEF RunChecks
  <2>7. CASE RunDelivers
    BY <2>7 DEF RunDelivers
  <2>8. CASE RunReturns
    BY <2>8 DEF RunReturns
  <2>9. CASE ShutdownTakes
    BY <2>9 DEF ShutdownTakes
  <2>10. CASE ShutdownCancels
    BY <2>10 DEF ShutdownCancels
  <2>11. CASE UNCHANGED vars
    BY <2>11 DEF vars
  <2> QED
    BY <2>1, <2>2, <2>3, <2>4, <2>5, <2>6, <2>7, <2>8, <2>9, <2>10, <2>11 DEF Next, TimerStep
<1> QED
  BY <1>1, <1>2, VblankTypeCorrect, PTL DEF Spec

-----------------------------------------------------------------------------
(***************************************************************************)
(* DamageList: the bounded list of rectangles keeps the card's promise for *)
(* every size of framebuffer, buffer and list.  The argument is in three   *)
(* parts: what the bounding box of some rectangles covers, that a push loses*)
(* no changed pixel (DamageInv, which is inductive), and that cutting to the*)
(* buffer keeps every pixel the buffer has.                                *)
(***************************************************************************)

\* The rectangles inside a surface of w by h, empty ones included.
Boxes(w, h) == [x1 : 0 .. w, y1 : 0 .. h, x2 : 0 .. w, y2 : 0 .. h]

\* The list is of proper rectangles, covers what was changed, is no longer
\* than its array, and holds something exactly when something was changed.
DamageInv ==
    /\ damage \in Seq(Rects)
    /\ DamageCoversChanges
    /\ changed \subseteq Pixels(Full)
    /\ damage # <<>> => changed # {}

\* Lowest finds the least element of a set of naturals: the minimum the loops
\* over rectangles compute (painter.rs, ioctl.rs).
LEMMA LowestOf ==
    ASSUME NEW S, S \subseteq Nat, S # {}
    PROVE  Lowest(S) \in S /\ \A k \in S : Lowest(S) <= k
<1> DEFINE Less == {ss \in Nat \X Nat : ss[1] < ss[2]}
<1>1. IsWellFoundedOn(Less, Nat)
  BY NatLessThanWellFounded DEF OpToRel
<1>2. PICK n \in S : \A k \in S : ~(<<k, n>> \in Less)
  BY <1>1, WFMin
<1>3. ASSUME NEW k \in S, k < n PROVE FALSE
  <2>1. <<k, n>> \in Nat \X Nat
    OBVIOUS
  <2>2. <<k, n>>[1] = k /\ <<k, n>>[2] = n
    OBVIOUS
  <2>3. <<k, n>> \in Less
    BY <1>3, <2>1, <2>2
  <2> QED
    BY <1>2, <2>3
<1>4. \A k \in S : n <= k
  BY <1>3
<1> QED
  BY <1>4 DEF Lowest

\* Highest finds the greatest element of a bounded set of naturals: the
\* maximum of the same loops.
LEMMA HighestOf ==
    ASSUME NEW top \in Nat, NEW S, S \subseteq 0 .. top, S # {}
    PROVE  Highest(S) \in S /\ \A k \in S : Highest(S) >= k
<1> DEFINE T == {top - k : k \in S}
<1>1. T \subseteq Nat
  OBVIOUS
<1>2. T # {}
  OBVIOUS
<1>3. Lowest(T) \in T /\ \A k \in T : Lowest(T) <= k
  BY <1>1, <1>2, LowestOf
<1>4. PICK m \in S : Lowest(T) = top - m
  BY <1>3
<1>5. ASSUME NEW k \in S PROVE m >= k
  <2>1. top - k \in T
    OBVIOUS
  <2>2. top - m <= top - k
    BY <1>3, <1>4, <2>1
  <2> QED
    BY <2>2
<1> QED
  BY <1>5 DEF Highest

\* The bounding box of some rectangles is one, and covers each of them: what
\* Damage::push and GRABPIX rely on when a list overflows.
LEMMA BoundCovers ==
    ASSUME NEW w \in Nat, NEW h \in Nat, NEW rs, rs \subseteq Boxes(w, h), rs # {}
    PROVE  /\ Bound(rs) \in Boxes(w, h)
           /\ \A r \in rs : /\ Bound(rs).x1 <= r.x1 /\ Bound(rs).y1 <= r.y1
                            /\ r.x2 <= Bound(rs).x2 /\ r.y2 <= Bound(rs).y2
<1> DEFINE X1 == {r.x1 : r \in rs}
           Y1 == {r.y1 : r \in rs}
           X2 == {r.x2 : r \in rs}
           Y2 == {r.y2 : r \in rs}
<1>1. X1 \subseteq 0 .. w /\ X2 \subseteq 0 .. w /\ Y1 \subseteq 0 .. h /\ Y2 \subseteq 0 .. h
  BY DEF Boxes
<1>2. X1 # {} /\ X2 # {} /\ Y1 # {} /\ Y2 # {}
  OBVIOUS
<1>3. Lowest(X1) \in X1 /\ \A k \in X1 : Lowest(X1) <= k
  <2>1. X1 \subseteq Nat
    BY <1>1
  <2> QED
    BY <1>2, <2>1, LowestOf
<1>4. Lowest(Y1) \in Y1 /\ \A k \in Y1 : Lowest(Y1) <= k
  <2>1. Y1 \subseteq Nat
    BY <1>1
  <2> QED
    BY <1>2, <2>1, LowestOf
<1>5. Highest(X2) \in X2 /\ \A k \in X2 : Highest(X2) >= k
  BY <1>1, <1>2, HighestOf
<1>6. Highest(Y2) \in Y2 /\ \A k \in Y2 : Highest(Y2) >= k
  BY <1>1, <1>2, HighestOf
<1>7. Bound(rs) = Box(Lowest(X1), Lowest(Y1), Highest(X2), Highest(Y2))
  BY DEF Bound
<1>8. Bound(rs) \in Boxes(w, h)
  BY <1>1, <1>3, <1>4, <1>5, <1>6, <1>7 DEF Boxes, Box
<1>9. ASSUME NEW r \in rs
      PROVE  /\ Bound(rs).x1 <= r.x1 /\ Bound(rs).y1 <= r.y1
             /\ r.x2 <= Bound(rs).x2 /\ r.y2 <= Bound(rs).y2
  <2>1. r.x1 \in X1 /\ r.y1 \in Y1 /\ r.x2 \in X2 /\ r.y2 \in Y2
    OBVIOUS
  <2>2. Lowest(X1) <= r.x1 /\ Lowest(Y1) <= r.y1 /\ Highest(X2) >= r.x2 /\ Highest(Y2) >= r.y2
    BY <1>3, <1>4, <1>5, <1>6, <2>1
  <2>3. r.x2 <= Highest(X2) /\ r.y2 <= Highest(Y2)
    BY <1>1, <1>5, <1>6, <2>1, <2>2
  <2> QED
    BY <1>7, <2>2, <2>3 DEF Box
<1> QED
  BY <1>8, <1>9

\* A rectangle inside another covers no more.
LEMMA InsideCovered ==
    ASSUME NEW w \in Nat, NEW h \in Nat, NEW r \in Boxes(w, h), NEW b \in Boxes(w, h),
           b.x1 <= r.x1, b.y1 <= r.y1, r.x2 <= b.x2, r.y2 <= b.y2
    PROVE  Pixels(r) \subseteq Pixels(b)
<1>1. r.x1 .. r.x2 - 1 \subseteq b.x1 .. b.x2 - 1
  BY DEF Boxes
<1>2. r.y1 .. r.y2 - 1 \subseteq b.y1 .. b.y2 - 1
  BY DEF Boxes
<1> QED
  BY <1>1, <1>2 DEF Pixels

\* Damage::push keeps a list of proper rectangles within its array, and what
\* it covered and the new rectangle are covered after it (painter.rs).
LEMMA PushKeeps ==
    ASSUME NEW d \in Seq(Rects), Len(d) <= MAX_DAMAGE_RECTS, NEW r \in Rects
    PROVE  /\ DamagePush(d, r) \in Seq(Rects)
           /\ DamagePush(d, r) # <<>>
           /\ Len(DamagePush(d, r)) <= MAX_DAMAGE_RECTS
           /\ Covered(Listed(d)) \cup Pixels(r) \subseteq Covered(Listed(DamagePush(d, r)))
<1>1. CASE Len(d) < MAX_DAMAGE_RECTS
  <2>1. DamagePush(d, r) = Append(d, r)
    BY <1>1 DEF DamagePush
  <2>2. Append(d, r) \in Seq(Rects) /\ Append(d, r) # <<>> /\ Len(Append(d, r)) = Len(d) + 1
    OBVIOUS
  <2>3. Listed(d) \cup {r} \subseteq Listed(Append(d, r))
    <3>1. ASSUME NEW i \in 1 .. Len(d) PROVE d[i] = Append(d, r)[i] /\ i \in 1 .. Len(d) + 1
      OBVIOUS
    <3>2. r = Append(d, r)[Len(d) + 1] /\ Len(d) + 1 \in 1 .. Len(d) + 1
      OBVIOUS
    <3> QED
      BY <2>2, <3>1, <3>2 DEF Listed
  <2>4. Covered(Listed(d)) \cup Pixels(r) \subseteq Covered(Listed(Append(d, r)))
    BY <2>3 DEF Covered
  <2> QED
    BY <1>1, <2>1, <2>2, <2>4, DamageAssumption
<1>2. CASE ~(Len(d) < MAX_DAMAGE_RECTS)
  <2> DEFINE rs == Listed(d) \cup {r}
  <2>1. DamagePush(d, r) = <<Bound(rs)>>
    BY <1>2 DEF DamagePush
  <2>2. Listed(d) \subseteq Rects
    BY DEF Listed
  <2>3. Rects \subseteq Boxes(FbWidth, FbHeight)
    BY DEF Rects, Boxes
  <2>4. rs \subseteq Boxes(FbWidth, FbHeight) /\ rs # {}
    BY <2>2, <2>3
  <2> HIDE DEF rs
  <2>5. /\ Bound(rs) \in Boxes(FbWidth, FbHeight)
        /\ \A q \in rs : /\ Bound(rs).x1 <= q.x1 /\ Bound(rs).y1 <= q.y1
                         /\ q.x2 <= Bound(rs).x2 /\ q.y2 <= Bound(rs).y2
    BY <2>4, BoundCovers, DamageAssumption
  <2>6. r \in rs
    BY DEF rs
  <2>7. Bound(rs) \in Rects
    <3>1. Bound(rs).x1 <= r.x1 /\ r.x2 <= Bound(rs).x2 /\ Bound(rs).y1 <= r.y1 /\ r.y2 <= Bound(rs).y2
      BY <2>5, <2>6
    <3> QED
      BY <2>5, <3>1, DamageAssumption DEF Rects, Boxes
  <2>8. \A q \in rs : Pixels(q) \subseteq Pixels(Bound(rs))
    BY <2>4, <2>5, InsideCovered, DamageAssumption
  <2>9. Listed(<<Bound(rs)>>) = {Bound(rs)}
    BY DEF Listed
  <2>10. Covered(Listed(d)) \cup Pixels(r) \subseteq Covered(Listed(<<Bound(rs)>>))
    BY <2>8, <2>9 DEF Covered, rs
  <2>11. <<Bound(rs)>> \in Seq(Rects) /\ <<Bound(rs)>> # <<>> /\ Len(<<Bound(rs)>>) = 1
    BY <2>7
  <2> QED
    BY <2>1, <2>10, <2>11, DamageAssumption
<1> QED
  BY <1>1, <1>2

\* DamageInv holds initially and is kept by every flip and every grab.
LEMMA DamageInvariant == DamageSpec => []DamageInv
<1>1. DamageInit => DamageInv
  BY DamageAssumption DEF DamageInit, DamageInv, DamageCoversChanges, Covered, Listed
<1>2. DamageInv /\ [DamageNext]_damageVars => DamageInv'
  <2> SUFFICES ASSUME DamageInv, [DamageNext]_damageVars PROVE DamageInv'
    OBVIOUS
  <2>1. ASSUME NEW r \in Rects, Flip(r) PROVE DamageInv'
    <3>1. /\ damage' \in Seq(Rects) /\ damage' # <<>> /\ Len(damage') <= MAX_DAMAGE_RECTS
          /\ Covered(Listed(damage)) \cup Pixels(r) \subseteq Covered(Listed(damage'))
      BY <2>1, PushKeeps DEF DamageInv, DamageCoversChanges, Flip
    <3>2. changed' \subseteq Covered(Listed(damage'))
      BY <2>1, <3>1 DEF DamageInv, DamageCoversChanges, Flip
    <3>3. Pixels(r) \subseteq Pixels(Full)
      BY DamageAssumption DEF Pixels, Full, Box, Rects
    <3>4. <<r.x1, r.y1>> \in Pixels(r)
      BY DamageAssumption DEF Pixels, Rects
    <3> QED
      BY <2>1, <3>1, <3>2, <3>3, <3>4 DEF DamageInv, DamageCoversChanges, Flip
  <2>2. ASSUME NEW b \in Buffers, NEW cap \in Capacities, Grab(b[1], b[2], cap) PROVE DamageInv'
    BY <2>2, DamageAssumption DEF DamageInv, DamageCoversChanges, Grab, Covered, Listed
  <2>3. CASE UNCHANGED damageVars
    BY <2>3 DEF DamageInv, DamageCoversChanges, Covered, Listed, damageVars
  <2> QED
    BY <2>1, <2>2, <2>3 DEF DamageNext
<1> QED
  BY <1>1, <1>2, PTL DEF DamageSpec

\* Every pixel changed since the last grab is in the recorded damage, for every
\* size of list and framebuffer (Damage::push, painter.rs).
THEOREM DamageAlwaysCovers == DamageSpec => []DamageCoversChanges
<1>1. DamageInv => DamageCoversChanges
  BY DEF DamageInv
<1> QED
  BY <1>1, DamageInvariant, PTL

-----------------------------------------------------------------------------
\* Cutting a rectangle to a buffer leaves one inside the buffer that still has
\* every pixel the two share (the clamps of GRABPIX, ioctl.rs).
LEMMA ClampKeeps ==
    ASSUME NEW w \in Nat, NEW h \in Nat, NEW r \in Boxes(FbWidth, FbHeight)
    PROVE  /\ ClampRect(r, w, h) \in Boxes(w, h)
           /\ Pixels(r) \cap Pixels(Box(0, 0, w, h)) \subseteq Pixels(ClampRect(r, w, h))
           /\ Pixels(ClampRect(r, w, h)) # {} => NotEmpty(ClampRect(r, w, h))
<1> DEFINE c == ClampRect(r, w, h)
<1>1. c \in Boxes(w, h)
  BY DamageAssumption DEF ClampRect, Clamp, Box, Boxes
<1>2. (r.x1 .. r.x2 - 1) \cap (0 .. w - 1) \subseteq c.x1 .. c.x2 - 1
  BY DamageAssumption DEF ClampRect, Clamp, Box, Boxes
<1>3. (r.y1 .. r.y2 - 1) \cap (0 .. h - 1) \subseteq c.y1 .. c.y2 - 1
  BY DamageAssumption DEF ClampRect, Clamp, Box, Boxes
<1>4. Pixels(r) \cap Pixels(Box(0, 0, w, h)) \subseteq Pixels(c)
  <2>1. Pixels(Box(0, 0, w, h)) = (0 .. w - 1) \X (0 .. h - 1)
    BY DEF Pixels, Box
  <2> HIDE DEF c
  <2> QED
    BY <1>2, <1>3, <2>1 DEF Pixels
<1> HIDE DEF c
<1>5. Pixels(c) # {} => NotEmpty(c)
  <2> SUFFICES ASSUME NEW p \in Pixels(c) PROVE NotEmpty(c)
    OBVIOUS
  <2>1. p[1] \in c.x1 .. c.x2 - 1 /\ p[2] \in c.y1 .. c.y2 - 1
    BY DEF Pixels
  <2> QED
    BY <1>1, <2>1 DEF NotEmpty, Boxes
<1> QED
  BY <1>1, <1>4, <1>5 DEF c

\* What a grab reports has every pixel of its rectangles that the buffer has,
\* and nothing outside the buffer, also when they are too many for the client
\* and become one (GRABPIX, ioctl.rs).
LEMMA ReportedKeeps ==
    ASSUME NEW d \in Seq(Boxes(FbWidth, FbHeight)), NEW w \in Nat, NEW h \in Nat,
           NEW cap \in Nat \ {0}
    PROVE  /\ Covered(Listed(d)) \cap Pixels(Box(0, 0, w, h)) \subseteq Covered(Reported(d, w, h, cap))
           /\ Covered(Reported(d, w, h, cap)) \subseteq Pixels(Box(0, 0, w, h))
<1> DEFINE kept == Kept(d, w, h)
           rects == {ClampRect(d[i], w, h) : i \in kept}
           screen == Pixels(Box(0, 0, w, h))
<1>1. \A i \in 1 .. Len(d) : d[i] \in Boxes(FbWidth, FbHeight)
  OBVIOUS
<1>2. rects \subseteq Boxes(w, h)
  BY <1>1, ClampKeeps DEF Kept
<1>3. Covered(Listed(d)) \cap screen \subseteq Covered(rects)
  <2> SUFFICES ASSUME NEW i \in 1 .. Len(d), NEW p \in Pixels(d[i]), p \in screen
               PROVE  p \in Covered(rects)
    BY DEF Covered, Listed
  <2>1. p \in Pixels(ClampRect(d[i], w, h))
    BY <1>1, ClampKeeps
  <2>2. NotEmpty(ClampRect(d[i], w, h))
    BY <1>1, <2>1, ClampKeeps
  <2>3. i \in kept
    BY <2>2 DEF Kept
  <2> QED
    BY <2>1, <2>3 DEF Covered
<1>4. \A b \in Boxes(w, h) : Pixels(b) \subseteq screen
  BY DEF Boxes, Pixels, Box
<1>5. CASE Cardinality(kept) > Least(cap, MAX_DAMAGE_RECTS)
  <2>1. Reported(d, w, h, cap) = {Bound(rects)}
    BY <1>5 DEF Reported
  <2>2. Least(cap, MAX_DAMAGE_RECTS) > 0
    BY DamageAssumption DEF Least
  <2>3. kept # {}
    <3>1. Least(cap, MAX_DAMAGE_RECTS) \in Nat
      BY DamageAssumption DEF Least
    <3> HIDE DEF kept
    <3>2. ASSUME kept = {} PROVE FALSE
      <4>1. Cardinality(kept) = 0
        BY <3>2, FS_EmptySet
      <4> QED
        BY <1>5, <2>2, <3>1, <4>1
    <3> QED
      BY <3>2
  <2>4. rects # {}
    BY <2>3
  <2> HIDE DEF rects, kept, screen
  <2>5. /\ Bound(rects) \in Boxes(w, h)
        /\ \A q \in rects : /\ Bound(rects).x1 <= q.x1 /\ Bound(rects).y1 <= q.y1
                            /\ q.x2 <= Bound(rects).x2 /\ q.y2 <= Bound(rects).y2
    BY <1>2, <2>4, BoundCovers
  <2>6. \A q \in rects : Pixels(q) \subseteq Pixels(Bound(rects))
    BY <1>2, <2>5, InsideCovered
  <2>7. Covered(rects) \subseteq Covered({Bound(rects)})
    BY <2>6 DEF Covered
  <2>8. Covered({Bound(rects)}) \subseteq screen
    BY <1>4, <2>5 DEF Covered
  <2> QED
    BY <1>3, <2>1, <2>7, <2>8 DEF screen
<1>6. CASE ~(Cardinality(kept) > Least(cap, MAX_DAMAGE_RECTS))
  <2>1. Reported(d, w, h, cap) = rects
    BY <1>6 DEF Reported
  <2>2. Covered(rects) \subseteq screen
    <3> HIDE DEF rects, screen
    <3> QED
      BY <1>2, <1>4 DEF Covered
  <2> QED
    BY <1>3, <2>1, <2>2
<1> QED
  BY <1>5, <1>6

\* Flips and grabs of the list are changes and grabs of the promise: no size
\* of framebuffer, buffer, list or room loses the client a changed pixel
\* (painter.rs, ioctl.rs).
THEOREM ListKeepsThePromise == DamageSpec => KeepsThePromise
<1> DEFINE Room(box) == Pixels(box) \cap Pixels(Full)
<1>0. Room(Nowhere) = {}
  BY DEF Nowhere, Box, Pixels
<1>1. DamageInit => Promise!PromiseInit
  BY <1>0 DEF DamageInit, Promise!PromiseInit, Covered
<1>2. DamageInv /\ [DamageNext]_damageVars => [Promise!PromiseNext]_(Promise!promiseVars)
  <2> SUFFICES ASSUME DamageInv, [DamageNext]_damageVars
               PROVE  [Promise!PromiseNext]_(Promise!promiseVars)
    OBVIOUS
  <2>1. ASSUME NEW r \in Rects, Flip(r) PROVE Promise!PromiseNext
    <3>1. Pixels(r) \in SUBSET Pixels(Full)
      BY DamageAssumption DEF Pixels, Full, Box, Rects
    <3>2. Covered(report') = {}
      BY <2>1 DEF Flip, Covered
    <3>3. Promise!Change(Pixels(r))
      BY <1>0, <2>1, <3>2 DEF Flip, Promise!Change, Promise!Returned
    <3> QED
      BY <3>1, <3>3 DEF Promise!PromiseNext
  <2>2. ASSUME NEW b \in Buffers, NEW cap \in Capacities, Grab(b[1], b[2], cap)
        PROVE  Promise!PromiseNext
    <3> DEFINE w == Least(FbWidth, b[1])
               h == Least(FbHeight, b[2])
               visible == Pixels(Box(0, 0, w, h))
               d == Recorded(damage)
    <3>1. w \in 0 .. FbWidth /\ h \in 0 .. FbHeight /\ cap \in Nat \ {0}
      BY DamageAssumption DEF Least
    <3>2. visible \in SUBSET Pixels(Full)
      BY <3>1, DamageAssumption DEF Pixels, Full, Box
    <3>3. d \in Seq(Boxes(FbWidth, FbHeight))
      <4>1. Full \in Boxes(FbWidth, FbHeight)
        BY DamageAssumption DEF Full, Box, Boxes
      <4>2. Rects \subseteq Boxes(FbWidth, FbHeight)
        BY DEF Rects, Boxes
      <4>3. damage \in Seq(Boxes(FbWidth, FbHeight))
        BY <4>2 DEF DamageInv
      <4> QED
        BY <4>1, <4>3 DEF Recorded
    <3>4. (IF changed = {} THEN Pixels(Full) ELSE changed) \subseteq Covered(Listed(d))
      <4>1. CASE damage = <<>>
        <5>1. Listed(d) = {Full}
          BY <4>1 DEF Recorded, Listed
        <5>2. changed = {}
          BY <4>1 DEF DamageInv, DamageCoversChanges, Covered, Listed
        <5> QED
          BY <5>1, <5>2 DEF Covered
      <4>2. CASE damage # <<>>
        BY <4>2 DEF DamageInv, DamageCoversChanges, Recorded
      <4> QED
        BY <4>1, <4>2
    <3>5. report' = Reported(d, w, h, cap) /\ changed' = {}
      BY <2>2 DEF Grab
    <3> HIDE DEF w, h, visible, d
    <3>6. /\ Covered(Listed(d)) \cap visible \subseteq Covered(report')
          /\ Covered(report') \subseteq visible
      BY <3>1, <3>3, <3>5, ReportedKeeps, DamageAssumption DEF visible
    <3>7. into' = Box(0, 0, b[1], b[2]) /\ into' # Nowhere
      <4>1. into' = Box(0, 0, b[1], b[2]) /\ b[1] # -1
        BY <2>2, DamageAssumption DEF Grab
      <4> QED
        BY <4>1 DEF Nowhere, Box
    <3>8. Room(into') = visible
      <4>1. (0 .. b[1] - 1) \cap (0 .. FbWidth - 1) = 0 .. w - 1
        BY DamageAssumption DEF w, Least
      <4>2. (0 .. b[2] - 1) \cap (0 .. FbHeight - 1) = 0 .. h - 1
        BY DamageAssumption DEF h, Least
      <4> QED
        BY <3>7, <4>1, <4>2 DEF visible, Pixels, Full, Box
    <3>9. Promise!Grab
      BY <3>2, <3>4, <3>5, <3>6, <3>7, <3>8 DEF Promise!Grab
    <3> QED
      BY <3>9 DEF Promise!PromiseNext
  <2>3. CASE UNCHANGED damageVars
    BY <2>3 DEF damageVars, Promise!promiseVars, Covered
  <2> QED
    BY <2>1, <2>2, <2>3 DEF DamageNext
<1> QED
  BY <1>1, <1>2, DamageInvariant, PTL DEF DamageSpec, KeepsThePromise, Promise!PromiseSpec

-----------------------------------------------------------------------------
(***************************************************************************)
(* ColorPipeline: what is grabbed has the programmed colours, for every    *)
(* number of levels and every matrix and ramp.  The shortcuts of build are *)
(* exact because a level survives the trip to fixed point and back; that a *)
(* channel is a nearest level is one inequality for each of two roundings. *)
(***************************************************************************)

\* A division by a positive number rounds down.
LEMMA DivisionBounds ==
  ASSUME NEW a \in Int, NEW b \in Nat \ {0}
  PROVE  a \div b \in Int /\ b * (a \div b) <= a /\ a < b * (a \div b) + b
<1>1. a = b * (a \div b) + (a % b) /\ a \div b \in Int /\ a % b \in 0 .. b - 1
  OBVIOUS
<1>2. b * (a \div b) \in Int
  BY <1>1
<1> QED
  BY <1>1, <1>2

\* A factor may be taken away.
LEMMA FactorCancels ==
  ASSUME NEW b \in Nat \ {0}, NEW x \in Int, NEW y \in Int, b * x < b * y
  PROVE  x < y
<1>1. CASE x >= y
  <2>1. PICK d \in Nat : x = y + d
    BY <1>1
  <2>2. b * x = b * y + b * d /\ b * d >= 0
    BY <2>1
  <2> QED
    BY <2>2
<1> QED
  BY <1>1

\* A multiple and less than the divisor gives the multiple back.
LEMMA DivisionExact ==
  ASSUME NEW b \in Nat \ {0}, NEW x \in Int, NEW r \in 0 .. b - 1
  PROVE  (b * x + r) \div b = x
<1> DEFINE q == (b * x + r) \div b
<1>1. b * x + r \in Int
  OBVIOUS
<1>2. q \in Int /\ b * q <= b * x + r /\ b * x + r < b * q + b
  BY <1>1, DivisionBounds
<1> HIDE DEF q
<1>3. b * (x + 1) = b * x + b /\ b * (q + 1) = b * q + b
  BY <1>2
<1>4. b * q \in Int /\ b * x \in Int
  BY <1>2
<1>5. b * q < b * (x + 1) /\ b * x < b * (q + 1)
  BY <1>2, <1>3, <1>4
<1>6. q < x + 1 /\ x < q + 1
  BY <1>2, <1>5, FactorCancels
<1> QED
  BY <1>2, <1>6 DEF q

\* Half of the even number of levels, and the fixed point in terms of it.
LEMMA Halves ==
  \E h \in Nat : /\ h >= 1 /\ N = 2 * h /\ N \div 2 = h /\ Q = 4 * (h * h) /\ Q \div 2 = 2 * (h * h)
                 /\ Q \in Nat \ {0} /\ Step = 2 * h + 1 /\ MAX = (2 * h - 1) * (2 * h + 1)
<1>1. PICK h \in Nat : N = 2 * h /\ N \div 2 = h
  BY ColorAssumption
<1>2. h >= 1
  BY <1>1, ColorAssumption
<1>3. Q = 4 * (h * h)
  BY <1>1 DEF Q
<1>4. h * h \in Nat /\ h * h >= 1
  BY <1>2
<1>5. Q \div 2 = 2 * (h * h)
  <2> DEFINE hh == h * h
  <2>1. hh \in Nat /\ Q = 4 * hh
    BY <1>3, <1>4
  <2> HIDE DEF hh
  <2>2. Q \div 2 = 2 * hh
    BY <2>1
  <2> QED
    BY <2>2 DEF hh
<1>6. (2 * h - 1) * (2 * h + 1) = 4 * (h * h) - 1
  OBVIOUS
<1> QED
  BY <1>1, <1>2, <1>3, <1>4, <1>5, <1>6 DEF MAX, Step

\* A level in fixed point is within its range, and narrows to itself.
LEMMA LevelSurvives ==
  ASSUME NEW i \in Levels
  PROVE  Expand(i) \in 0 .. MAX /\ Narrow(Expand(i)) = i
<1>1. PICK h \in Nat : h >= 1 /\ N = 2 * h /\ N \div 2 = h /\ Step = 2 * h + 1 /\ MAX = (2 * h - 1) * (2 * h + 1)
  BY Halves
<1>2. i \in 0 .. 2 * h - 1
  BY <1>1 DEF Levels
<1> DEFINE d == 2 * h - 1 - i
<1>3. d \in Nat /\ 2 * h - 1 = i + d /\ i \in Nat
  BY <1>2
<1> HIDE DEF d
<1>4. MAX = i * Step + d * Step /\ i * Step >= 0 /\ d * Step >= 0 /\ i * Step \in Int /\ d * Step \in Int
  BY <1>1, <1>2, <1>3
<1>5. Expand(i) \in 0 .. MAX
  BY <1>4 DEF Expand
<1>6. i * Step = Step * i /\ h \in 0 .. Step - 1 /\ Step \in Nat \ {0} /\ i \in Int
  <2>1. h \in 0 .. Step - 1 /\ Step \in Nat \ {0} /\ i \in Int
    BY <1>1, <1>2
  <2>2. i * Step = Step * i
    BY <2>1
  <2> QED
    BY <2>1, <2>2
<1>7. (Step * i + h) \div Step = i
  BY <1>6, DivisionExact
<1>8. InRange(Expand(i), 0, MAX) = Expand(i)
  BY <1>4 DEF InRange, Expand
<1>9. InRange(i, 0, N - 1) = i
  BY <1>1, <1>2 DEF InRange
<1> QED
  BY <1>1, <1>5, <1>6, <1>7, <1>8, <1>9 DEF Narrow, Expand

\* A gain of one is none.
LEMMA UnitGainIsNone ==
  ASSUME NEW v \in 0 .. MAX
  PROVE  Scaled(Q * v) = v
<1>1. PICK h \in Nat : h >= 1 /\ Q = 4 * (h * h) /\ Q \div 2 = 2 * (h * h) /\ Q \in Nat \ {0}
  BY Halves
<1>2. h * h \in Nat /\ h * h >= 1
  BY <1>1
<1>3. Q \div 2 \in 0 .. Q - 1
  BY <1>1, <1>2
<1>4. MAX \in Int /\ v \in Int
  BY <1>1 DEF MAX
<1>5. (Q * v + Q \div 2) \div Q = v
  BY <1>1, <1>3, <1>4, DivisionExact
<1> QED
  BY <1>4, <1>5 DEF Scaled, InRange

\* What the conversions return.
LEMMA Ranges ==
  ASSUME NEW v \in Int
  PROVE  Scaled(v) \in 0 .. MAX /\ Narrow(v) \in Levels /\ ToQ16(v) \in Int
<1>1. N \in Nat /\ Q \in Nat \ {0} /\ MAX \in Nat /\ Step \in Nat \ {0} /\ Q \div 2 \in Int /\ N \div 2 \in Int
  BY Halves, ColorAssumption DEF MAX, Step, Q
<1>2. (v + Q \div 2) \div Q \in Int
  BY <1>1, DivisionBounds
<1>3. Scaled(v) \in 0 .. MAX
  BY <1>1, <1>2 DEF Scaled, InRange
<1>4. InRange(v, 0, MAX) + N \div 2 \in Int
  BY <1>1 DEF InRange
<1>5. (InRange(v, 0, MAX) + N \div 2) \div Step \in Int
  BY <1>1, <1>4, DivisionBounds
<1>6. Narrow(v) \in Levels
  BY <1>1, <1>5, ColorAssumption DEF Narrow, InRange, Levels
<1>7. v \div Fine \in Int
  BY DivisionBounds, ColorAssumption
<1>8. ToQ16(v) \in Int
  BY <1>7, ColorAssumption DEF ToQ16, InRange
<1> QED
  BY <1>3, <1>6, <1>8

LEMMA SampleIsInt ==
  ASSUME NEW table \in [Levels -> Int], NEW v \in Int
  PROVE  Sample(table, v) \in Int
<1> DEFINE at == InRange(v, 0, MAX)
           idx == at \div Step
           frac == at % Step
           a == table[InRange(idx, 0, N - 1)]
           b == table[InRange(idx + 1, 0, N - 1)]
<1>1. N \in Nat /\ N >= 2 /\ MAX \in Int /\ Step \in Nat \ {0} /\ N \div 2 \in Int
  BY Halves, ColorAssumption DEF MAX, Step, Q
<1>2. at \in Int
  BY <1>1 DEF InRange
<1>3. idx \in Int /\ frac \in Int
  BY <1>1, <1>2, DivisionBounds
<1>4. a \in Int /\ b \in Int
  <2>1. InRange(idx, 0, N - 1) \in Levels /\ InRange(idx + 1, 0, N - 1) \in Levels
    BY <1>1, <1>3 DEF InRange, Levels
  <2> QED
    BY <2>1
<1> DEFINE sum == a * (Step - frac) + b * frac + N \div 2
<1>5. sum \in Int
  <2> HIDE DEF a, b, frac
  <2> QED
    BY <1>1, <1>3, <1>4
<1>6. sum \div Step \in Int
  BY <1>1, <1>5, DivisionBounds
<1> QED
  BY <1>6 DEF Sample

LEMMA ReadLutIsGamma ==
  ASSUME NEW ramp \in Ramps
  PROVE  ReadLut(ramp) \in Gamma
<1>1. ramp \in Seq([Channels -> Int]) /\ N \in Nat
  BY ColorAssumption
<1>2. ASSUME NEW c \in Channels, NEW i \in Levels
      PROVE  (IF i < Len(ramp) THEN ramp[i + 1][c] ELSE Expand(i)) \in Int
  <2>1. Len(ramp) \in Nat /\ i \in Nat /\ Expand(i) \in Int
    BY <1>1 DEF Levels, Expand, Step
  <2>2. i < Len(ramp) => ramp[i + 1] \in [Channels -> Int]
    BY <1>1, <2>1
  <2> QED
    BY <2>1, <2>2
<1> QED
  BY <1>2 DEF ReadLut, Gamma

-----------------------------------------------------------------------------
\* The pipeline in use is the one build makes of the last commit's blobs.
ColorInv ==
    /\ ctm \in Matrices \cup {Absent} /\ lut \in Ramps \cup {Absent}
    /\ on => color = Build(ctm, lut)

\* The programmed matrix, and a programmed ramp.
LEMMA ProgrammedIsMatrix ==
  ASSUME ctm \in Matrices \cup {Absent}
  PROVE  Programmed \in Matrix
<1>1. Q \in Int
  BY Halves
<1>2. ASSUME NEW rc \in Channels \X Channels, ctm # Absent PROVE ToQ16(ctm[rc]) \in Int
  <2>1. ctm[rc] \in Int
    BY <1>2, ColorAssumption DEF Matrix
  <2> QED
    BY <2>1, Ranges
<1> QED
  BY <1>1, <1>2 DEF Programmed, Matrix

\* The general path of a matrix that mixes nothing is one product.
LEMMA OwnChannel ==
  ASSUME NEW m \in Matrix, NEW px \in Pixel, NEW c \in Channels, ~Mixes(m)
  PROVE  m[c, 1] * Expand(px[1]) + m[c, 2] * Expand(px[2]) + m[c, 3] * Expand(px[3]) = m[c, c] * Expand(px[c])
<1>1. \A r, d \in Channels : m[r, d] \in Int
  BY DEF Matrix
<1>2. \A d \in Channels : Expand(px[d]) \in Int
  BY ColorAssumption DEF Pixel, Expand, Step, Levels
<1>3. \A d \in Channels : d # c => m[c, d] = 0
  BY DEF Mixes
<1>4. {1, 2, 3} \subseteq Channels /\ (c = 1 \/ c = 2 \/ c = 3)
  BY DEF Channels
<1> DEFINE e(d) == Expand(px[d])
           a(d) == m[c, d]
<1>5. /\ e(1) \in Int /\ e(2) \in Int /\ e(3) \in Int /\ a(1) \in Int /\ a(2) \in Int /\ a(3) \in Int
      /\ \A d \in Channels : d # c => a(d) = 0
  BY <1>1, <1>2, <1>3, <1>4
<1> HIDE DEF e, a
<1>6. a(1) * e(1) + a(2) * e(2) + a(3) * e(3) = a(c) * e(c)
  <2>1. CASE c = 1
    <3>1. a(2) = 0 /\ a(3) = 0
      BY <1>4, <1>5, <2>1
    <3> QED
      BY <1>5, <2>1, <3>1
  <2>2. CASE c = 2
    <3>1. a(1) = 0 /\ a(3) = 0
      BY <1>4, <1>5, <2>2
    <3> QED
      BY <1>5, <2>2, <3>1
  <2>3. CASE c = 3
    <3>1. a(1) = 0 /\ a(2) = 0
      BY <1>4, <1>5, <2>3
    <3> QED
      BY <1>5, <2>3, <3>1
  <2> QED
    BY <1>4, <2>1, <2>2, <2>3
<1> QED
  BY <1>6 DEF e, a

\* A fused pipeline is one: no blob, and none of its parts, is missing.
LEMMA PipelinesArePresent ==
  ASSUME NEW gamma \in Gamma \cup {Absent}
  PROVE  /\ \A m \in Matrix : Mixed(m, gamma) # Absent
         /\ \A m \in Matrix \cup {Absent} : Fuse(m, gamma) # Absent
<1>1. \A m \in Matrix : Mixed(m, gamma) \in Pipelines
  BY DEF Mixed, Pipelines
<1>2. ASSUME NEW m \in Matrix \cup {Absent} PROVE Fuse(m, gamma) \in Pipelines
  <2>1. ASSUME NEW c \in Channels, NEW i \in Levels PROVE Fuse(m, gamma).table[c][i] \in Int
    <3> DEFINE gained == IF m = Absent THEN Expand(i) ELSE Scaled(m[c, c] * Expand(i))
    <3>1. Expand(i) \in Int
      BY ColorAssumption DEF Expand, Step, Levels
    <3>2. ASSUME m # Absent PROVE Scaled(m[c, c] * Expand(i)) \in Int
      <4> DEFINE a == m[c, c]
                 e == Expand(i)
      <4>1. a \in Int /\ e \in Int
        BY <3>1, <3>2 DEF Matrix
      <4> HIDE DEF a, e
      <4>2. a * e \in Int
        BY <4>1
      <4>3. Scaled(a * e) \in 0 .. MAX /\ MAX \in Int
        BY <4>2, Ranges, Halves DEF MAX
      <4>4. Scaled(a * e) \in Int
        BY <4>3
      <4> QED
        BY <4>4 DEF a, e
    <3>3. gained \in Int
      BY <3>1, <3>2
    <3>4. gamma # Absent => Sample(gamma[c], gained) \in Int
      BY <3>3, SampleIsInt DEF Gamma
    <3> DEFINE v == IF gamma = Absent THEN gained ELSE Sample(gamma[c], gained)
    <3>5. Narrow(v) \in Int
      <4>1. v \in Int
        BY <3>3, <3>4
      <4> HIDE DEF v
      <4>2. Narrow(v) \in Levels
        BY <4>1, Ranges
      <4> QED
        BY <4>2, ColorAssumption DEF Levels
    <3> QED
      BY <3>5 DEF Fuse
  <2> QED
    BY <2>1 DEF Fuse, Pipelines, Gamma
<1> QED
  BY <1>1, <1>2, ColorAssumption

\* The shortcuts of build do not show.
LEMMA ShortcutsDoNotShow ==
  ASSUME ColorInv, on
  PROVE  PathsAgree
<1> DEFINE gamma == IF lut = Absent THEN Absent ELSE ReadLut(lut)
           m == IF ctm = Absent THEN Absent ELSE [rc \in DOMAIN ctm |-> ToQ16(ctm[rc])]
           P == Programmed
<1>1. P \in Matrix
  BY ProgrammedIsMatrix DEF ColorInv
<1>2. gamma \in Gamma \cup {Absent}
  BY ReadLutIsGamma DEF ColorInv
<1>3. /\ lut # Absent => gamma # Absent
      /\ ctm # Absent => m = P
      /\ ctm # Absent => m # Absent
  <2>1. lut # Absent => gamma # Absent
    BY ReadLutIsGamma, ColorAssumption DEF ColorInv
  <2>2. ctm # Absent => m = P
    BY ColorAssumption DEF ColorInv, Programmed, Matrix
  <2> QED
    BY <1>1, <2>1, <2>2, ColorAssumption
<1>4. color = IF m # Absent /\ Mixes(m) THEN Mixed(m, gamma)
              ELSE IF m = Absent \/ Identity(m)
              THEN IF gamma = Absent THEN Absent ELSE Fuse(Absent, gamma)
              ELSE Fuse(m, gamma)
  BY DEF ColorInv, Build
<1> SUFFICES ASSUME NEW px \in Pixel, NEW c \in Channels
             PROVE  Grabbed(px, c) = Apply(Mixed(P, gamma), px, c)
  BY DEF PathsAgree
<1>5. px[c] \in Levels
  BY DEF Pixel
<1> HIDE DEF gamma, m, P
<1>6. CASE m # Absent /\ Mixes(m)
  <2>1. color = Mixed(P, gamma) /\ color # Absent
    BY <1>1, <1>2, <1>3, <1>4, <1>6, PipelinesArePresent DEF m
  <2> QED
    BY <2>1 DEF Grabbed
<1>7. CASE ~(m # Absent /\ Mixes(m))
  <2>1. ~Mixes(P)
    <3>1. CASE ctm = Absent
      BY <3>1 DEF P, Programmed, Mixes
    <3>2. CASE ctm # Absent
      BY <1>3, <1>7, <3>2
    <3> QED
      BY <3>1, <3>2
  <2> DEFINE out == Scaled(P[c, c] * Expand(px[c]))
  <2>2. Apply(Mixed(P, gamma), px, c) = Narrow(IF gamma = Absent THEN out ELSE Sample(gamma[c], out))
    BY <1>1, <2>1, OwnChannel DEF Apply, Mixed
  <2>3. CASE m = Absent \/ Identity(m)
    <3>1. P[c, c] = Q
      <4>1. CASE ctm = Absent
        BY <4>1 DEF P, Programmed
      <4>2. CASE ctm # Absent
        BY <1>3, <2>3, <4>2 DEF Identity
      <4> QED
        BY <4>1, <4>2
    <3>2. out = Expand(px[c]) /\ Narrow(Expand(px[c])) = px[c]
      BY <1>5, <3>1, UnitGainIsNone, LevelSurvives
    <3>3. CASE gamma = Absent
      <4>1. color = Absent
        BY <1>4, <1>7, <2>3, <3>3
      <4> QED
        BY <2>2, <3>2, <3>3, <4>1 DEF Grabbed
    <3>4. CASE gamma # Absent
      <4>1. color = Fuse(Absent, gamma) /\ color # Absent
        BY <1>2, <1>4, <1>7, <2>3, <3>4, PipelinesArePresent
      <4>2. Fuse(Absent, gamma).table[c][px[c]] = Narrow(Sample(gamma[c], Expand(px[c])))
        BY <1>5, <3>4 DEF Fuse
      <4>3. Fuse(Absent, gamma).kind = "fused"
        BY DEF Fuse
      <4> HIDE DEF out
      <4> QED
        BY <2>2, <3>2, <3>4, <4>1, <4>2, <4>3 DEF Grabbed, Apply
    <3> QED
      BY <3>3, <3>4
  <2>4. CASE ~(m = Absent \/ Identity(m))
    <3>1. m = P
      BY <1>3, <2>4 DEF m
    <3>2. color = Fuse(P, gamma) /\ color # Absent
      BY <1>1, <1>2, <1>4, <1>7, <2>4, <3>1, PipelinesArePresent
    <3>3. P # Absent
      BY <2>4, <3>1
    <3>4. Fuse(P, gamma).table[c][px[c]] = Narrow(IF gamma = Absent THEN out ELSE Sample(gamma[c], out))
      BY <1>5, <3>3 DEF Fuse
    <3>5. Fuse(P, gamma).kind = "fused"
      BY DEF Fuse
    <3> HIDE DEF out
    <3> QED
      BY <2>2, <3>2, <3>4, <3>5 DEF Grabbed, Apply
  <2> QED
    BY <2>3, <2>4
<1> QED
  BY <1>6, <1>7

-----------------------------------------------------------------------------
\* A factor may be given.
LEMMA FactorKeeps ==
  ASSUME NEW b \in Nat, NEW x \in Int, NEW y \in Int, x <= y
  PROVE  b * x <= b * y
<1> DEFINE d == y - x
<1>1. d \in Nat /\ y = x + d
  OBVIOUS
<1> HIDE DEF d
<1>2. b * y = b * x + b * d /\ b * d \in Nat /\ b * x \in Int
  BY <1>1
<1> QED
  BY <1>2

\* Where the product is in range, the two roundings cut nothing and stay
\* within half a level: scaled by the fixed point, the first is off by half a
\* unit and the second by half a step, less half a unit.
LEMMA RoundingsInRange ==
  ASSUME NEW A \in 0 .. (N - 1) * Q
  PROVE  2 * Q * Narrow(Scaled(A * Step)) \in 2 * A - Q .. 2 * A + Q
<1>1. PICK h \in Nat : /\ h >= 1 /\ N = 2 * h /\ N \div 2 = h /\ Q = 4 * (h * h) /\ Q \div 2 = 2 * (h * h)
                       /\ Q \in Nat \ {0} /\ Step = 2 * h + 1 /\ MAX = (2 * h - 1) * (2 * h + 1)
  BY Halves
<1> DEFINE k == Q \div 2
           B == A * Step
           t == (B + k) \div Q
           u == (t + h) \div Step
<1>2. k \in Nat /\ Q = 2 * k /\ k >= 1
  <2> DEFINE hh == h * h
  <2>1. hh \in Nat /\ hh >= 1 /\ Q = 4 * hh /\ k = 2 * hh
    BY <1>1
  <2> HIDE DEF hh, k
  <2> QED
    BY <2>1
<1>3. Step \in Nat /\ Step >= 3 /\ Step = N + 1 /\ N \in Nat /\ MAX = (N - 1) * Step
  BY <1>1
<1>4. A \in Int /\ A >= 0
  BY <1>3
<1>5. B \in Int /\ B >= 0 /\ B <= MAX * Q
  <2> DEFINE d == (N - 1) * Q - A
  <2>1. (N - 1) * Q \in Int
    BY <1>1, <1>3
  <2>2. d \in Nat /\ A + d = (N - 1) * Q
    BY <1>4, <2>1
  <2> HIDE DEF d
  <2>3. (A + d) * Step = A * Step + d * Step /\ A * Step >= 0 /\ d * Step >= 0
        /\ A * Step \in Int /\ d * Step \in Int
    BY <1>3, <1>4, <2>2
  <2>4. ((N - 1) * Q) * Step = ((N - 1) * Step) * Q
    BY <1>1, <1>3
  <2> QED
    BY <1>3, <2>2, <2>3, <2>4
<1> HIDE DEF k, B
<1>6. t \in Int /\ Q * t <= B + k /\ B + k < Q * t + Q
  <2>1. B + k \in Int /\ Q \in Nat \ {0}
    BY <1>1, <1>2, <1>5
  <2> QED
    BY <2>1, DivisionBounds
<1> HIDE DEF t
<1>7. t \in 0 .. MAX
  <2>1. MAX \in Nat /\ Q * t \in Int /\ MAX * Q = Q * MAX /\ Q * MAX \in Int
    BY <1>1, <1>3, <1>6
  <2>2. Q * t < Q * (MAX + 1)
    <3>1. Q * (MAX + 1) = Q * MAX + Q
      BY <1>1, <2>1
    <3> QED
      BY <1>2, <1>5, <1>6, <2>1, <3>1
  <2>3. Q * (0 - 1) < Q * t
    <3>1. Q * (0 - 1) = 0 - Q
      BY <1>1
    <3> QED
      BY <1>2, <1>5, <1>6, <2>1, <3>1
  <2>4. t < MAX + 1 /\ 0 - 1 < t
    BY <1>1, <1>6, <2>1, <2>2, <2>3, FactorCancels
  <2> QED
    BY <1>6, <2>1, <2>4
<1>8. Scaled(B) = t
  BY <1>6, <1>7, <1>3 DEF Scaled, InRange, t, k
<1>9. u \in Int /\ Step * u <= t + h /\ t + h < Step * u + Step
  <2>1. t + h \in Int /\ Step \in Nat \ {0}
    BY <1>3, <1>6
  <2> QED
    BY <2>1, DivisionBounds
<1> HIDE DEF u
<1>10. u \in 0 .. N - 1
  <2>1. Step * u \in Int /\ t <= (N - 1) * Step /\ t >= 0 /\ Step = 2 * h + 1
    BY <1>1, <1>3, <1>7, <1>9
  <2>2. Step * N = (N - 1) * Step + Step /\ Step * (0 - 1) = 0 - Step /\ Step * N \in Int
    BY <1>3
  <2>3. Step * u < Step * N /\ Step * (0 - 1) < Step * u
    <3> DEFINE su == Step * u
               top == (N - 1) * Step
    <3>1. su \in Int /\ top \in Int /\ t \in Int /\ h \in Nat /\ t <= top /\ t >= 0 /\ Step = 2 * h + 1
      BY <1>3, <1>6, <2>1
    <3>2. su <= t + h /\ t + h < su + Step
      BY <1>9
    <3> HIDE DEF su, top
    <3>3. su < top + Step /\ 0 - Step < su
      BY <3>1, <3>2
    <3> QED
      BY <2>2, <3>3 DEF su, top
  <2>4. u < N /\ 0 - 1 < u
    BY <1>3, <1>9, <2>3, FactorCancels
  <2> QED
    BY <1>3, <1>9, <2>4
<1>11. Narrow(t) = u
  <2>1. InRange(t, 0, MAX) = t
    BY <1>3, <1>7 DEF InRange
  <2>2. InRange(u, 0, N - 1) = u
    BY <1>3, <1>10 DEF InRange
  <2> QED
    BY <1>1, <2>1, <2>2 DEF Narrow, u
<1> DEFINE g == 2 * Q * u
<1>12. g \in Int /\ Step * g = 2 * (Q * (Step * u))
  BY <1>1, <1>3, <1>9
<1>13. Q * (Step * u) <= Q * (t + h) /\ Q * (t - h) <= Q * (Step * u)
  <2>1. Step * u \in Int /\ t - h <= Step * u
    BY <1>1, <1>3, <1>6, <1>9
  <2> QED
    BY <1>1, <1>6, <1>9, <2>1, FactorKeeps
<1>14. Q * (t + h) = Q * t + Q * h /\ Q * (t - h) = Q * t - Q * h /\ Q * Step = 2 * (Q * h) + Q
  BY <1>1, <1>6
<1>15. Step * (2 * A + Q) = 2 * B + Q * Step /\ Step * (2 * A - Q) = 2 * B - Q * Step
  BY <1>1, <1>3, <1>4 DEF B
<1>16. Step * g <= Step * (2 * A + Q) /\ Step * (2 * A - Q) <= Step * g
  <2> DEFINE qt == Q * t
             qh == Q * h
             qs == Q * Step
             w == Q * (Step * u)
  <2>1. qt \in Int /\ qh \in Int /\ qs \in Int /\ w \in Int /\ Q = 2 * k /\ k \in Nat /\ B \in Int
    BY <1>1, <1>2, <1>3, <1>5, <1>6, <1>9
  <2>2. w <= qt + qh /\ qt - qh <= w /\ qs = 2 * qh + Q /\ qt <= B + k /\ B + k < qt + Q
    BY <1>6, <1>13, <1>14
  <2> HIDE DEF qt, qh, qs, w
  <2>3. 2 * w <= 2 * B + qs /\ 2 * B - qs <= 2 * w
    BY <2>1, <2>2
  <2> QED
    BY <1>12, <1>15, <2>3 DEF qs, w
<1> HIDE DEF g
<1>17. g < 2 * A + Q + 1 /\ 2 * A - Q - 1 < g
  <2>1. Step * (2 * A + Q + 1) = Step * (2 * A + Q) + Step /\ Step * (2 * A - Q - 1) = Step * (2 * A - Q) - Step
    BY <1>1, <1>3, <1>4
  <2>2. Step * (2 * A + Q) \in Int /\ Step * (2 * A - Q) \in Int /\ Step * g \in Int
    BY <1>1, <1>3, <1>4, <1>12
  <2>3. Step * g < Step * (2 * A + Q + 1) /\ Step * (2 * A - Q - 1) < Step * g
    BY <1>3, <1>16, <2>1, <2>2
  <2> QED
    BY <1>1, <1>3, <1>4, <1>12, <2>3, FactorCancels
<1>18. g \in 2 * A - Q .. 2 * A + Q
  BY <1>1, <1>4, <1>12, <1>17
<1> QED
  BY <1>8, <1>11, <1>18 DEF g, B

\* Where it is not, both stop at the end of the range.
LEMMA RoundingsOutOfRange ==
  ASSUME NEW A \in Int
  PROVE  /\ A < 0 => Narrow(Scaled(A * Step)) = 0
         /\ A > (N - 1) * Q => Narrow(Scaled(A * Step)) = N - 1
<1>1. PICK h \in Nat : /\ h >= 1 /\ N = 2 * h /\ N \div 2 = h /\ Q = 4 * (h * h) /\ Q \div 2 = 2 * (h * h)
                       /\ Q \in Nat \ {0} /\ Step = 2 * h + 1 /\ MAX = (2 * h - 1) * (2 * h + 1)
  BY Halves
<1> DEFINE k == Q \div 2
           B == A * Step
           t == (B + k) \div Q
<1>2. k \in Nat /\ Q = 2 * k /\ k >= 1
  <2> DEFINE hh == h * h
  <2>1. hh \in Nat /\ hh >= 1 /\ Q = 4 * hh /\ k = 2 * hh
    BY <1>1
  <2> HIDE DEF hh, k
  <2> QED
    BY <2>1
<1>3. Step \in Nat /\ Step >= 3 /\ N \in Nat /\ N >= 2 /\ MAX = (N - 1) * Step /\ MAX \in Nat
  BY <1>1
<1>4. B \in Int
  BY <1>3
<1> HIDE DEF k, B
<1>5. t \in Int /\ Q * t <= B + k /\ B + k < Q * t + Q
  <2>1. B + k \in Int /\ Q \in Nat \ {0}
    BY <1>1, <1>2, <1>4
  <2> QED
    BY <2>1, DivisionBounds
<1>6. Scaled(B) = InRange(t, 0, MAX)
  BY DEF Scaled, k
<1> HIDE DEF t
<1>7. \A i \in Levels : Narrow(Expand(i)) = i
  BY LevelSurvives
<1>8. 0 \in Levels /\ N - 1 \in Levels /\ Expand(0) = 0 /\ Expand(N - 1) = MAX
  BY <1>3 DEF Levels, Expand
<1>9. Narrow(0) = 0 /\ Narrow(MAX) = N - 1
  BY <1>7, <1>8
<1>10. ASSUME A < 0 PROVE Scaled(B) = 0
  <2>1. B < 0
    <3>1. B = 0 - (0 - A) * Step /\ (0 - A) * Step >= 3
      BY <1>3, <1>10 DEF B
    <3>2. (0 - A) * Step \in Int
      BY <1>3
    <3> QED
      BY <3>1, <3>2
  <2>2. Q * 1 = Q /\ Q * t \in Int
    BY <1>1, <1>5
  <2>3. Q * t < Q * 1
    BY <1>2, <1>4, <1>5, <2>1, <2>2
  <2>4. t < 1
    BY <1>1, <1>5, <2>3, FactorCancels
  <2> QED
    BY <1>3, <1>5, <1>6, <2>4 DEF InRange
<1>11. ASSUME A > (N - 1) * Q PROVE Scaled(B) = MAX
  <2> DEFINE d == A - (N - 1) * Q
             top == (N - 1) * Q
  <2>1. top \in Int
    BY <1>1, <1>3
  <2>2. d \in Nat /\ A = top + d
    BY <1>11, <2>1
  <2> HIDE DEF d
  <2>3. (top + d) * Step = top * Step + d * Step /\ d * Step >= 0 /\ top * Step \in Int /\ d * Step \in Int
    <3> HIDE DEF top
    <3> QED
      BY <1>3, <2>1, <2>2
  <2>4. top * Step = Q * MAX /\ Q * MAX \in Int
    BY <1>1, <1>3
  <2>5. B >= Q * MAX
    <3> HIDE DEF top
    <3> QED
      BY <2>2, <2>3, <2>4 DEF B
  <2>6. Q * (t + 1) = Q * t + Q /\ Q * t \in Int
    BY <1>1, <1>5
  <2>7. Q * MAX < Q * (t + 1)
    BY <1>2, <1>4, <1>5, <2>4, <2>5, <2>6
  <2>8. MAX < t + 1
    BY <1>1, <1>3, <1>5, <2>7, FactorCancels
  <2> QED
    BY <1>3, <1>5, <1>6, <2>8 DEF InRange
<1> QED
  BY <1>9, <1>10, <1>11 DEF B

\* One rounding or two, the level is a nearest one.
LEMMA LevelIsNearest ==
  ASSUME ColorInv, on, lut = Absent
  PROVE  NearestLevel
<1> SUFFICES ASSUME NEW px \in Pixel, NEW c \in Channels
             PROVE  2 * Q * Grabbed(px, c) \in
                      2 * InRange(Programmed[c, 1] * px[1] + Programmed[c, 2] * px[2] + Programmed[c, 3] * px[3],
                                  0, (N - 1) * Q) - Q ..
                      2 * InRange(Programmed[c, 1] * px[1] + Programmed[c, 2] * px[2] + Programmed[c, 3] * px[3],
                                  0, (N - 1) * Q) + Q
  BY DEF NearestLevel
<1> DEFINE a(d) == Programmed[c, d]
           x(d) == px[d]
           A == a(1) * x(1) + a(2) * x(2) + a(3) * x(3)
           top == (N - 1) * Q
<1>1. Programmed \in Matrix
  BY ProgrammedIsMatrix DEF ColorInv
<1>2. /\ a(1) \in Int /\ a(2) \in Int /\ a(3) \in Int
      /\ x(1) \in Int /\ x(2) \in Int /\ x(3) \in Int
  <2>1. {1, 2, 3} \subseteq Channels /\ N \in Int
    BY ColorAssumption DEF Channels
  <2>2. \A d \in Channels : Programmed[c, d] \in Int
    BY <1>1 DEF Matrix
  <2>3. \A d \in Channels : px[d] \in Int
    BY <2>1 DEF Pixel, Levels
  <2> QED
    BY <2>1, <2>2, <2>3
<1>3. Q \in Nat \ {0} /\ Step \in Nat /\ N \in Nat /\ N >= 2
  BY Halves, ColorAssumption DEF Step
<1>4. Grabbed(px, c) = Narrow(Scaled(a(1) * (x(1) * Step) + a(2) * (x(2) * Step) + a(3) * (x(3) * Step)))
  <2>1. Grabbed(px, c) = Apply(Mixed(Programmed, Absent), px, c)
    BY ShortcutsDoNotShow DEF PathsAgree
  <2> QED
    BY <2>1 DEF Apply, Mixed, Expand
<1> HIDE DEF a, x
<1>5. A \in Int /\ a(1) * (x(1) * Step) + a(2) * (x(2) * Step) + a(3) * (x(3) * Step) = A * Step
  BY <1>2, <1>3
<1> HIDE DEF A
<1>6. Grabbed(px, c) = Narrow(Scaled(A * Step))
  BY <1>4, <1>5
<1>7. top \in Nat
  BY <1>3
<1>8. CASE A \in 0 .. top
  <2>1. InRange(A, 0, top) = A
    BY <1>5, <1>7, <1>8 DEF InRange
  <2>2. 2 * Q * Grabbed(px, c) \in 2 * A - Q .. 2 * A + Q
    BY <1>6, <1>8, RoundingsInRange
  <2> QED
    BY <2>1, <2>2 DEF A, a, x
<1>9. CASE A < 0
  <2>1. InRange(A, 0, top) = 0 /\ Grabbed(px, c) = 0
    BY <1>5, <1>6, <1>7, <1>9, RoundingsOutOfRange DEF InRange
  <2>2. 2 * Q * 0 \in 2 * 0 - Q .. 2 * 0 + Q
    BY <1>3
  <2> QED
    BY <2>1, <2>2 DEF A, a, x
<1>10. CASE A > top
  <2>1. InRange(A, 0, top) = top /\ Grabbed(px, c) = N - 1
    BY <1>5, <1>6, <1>7, <1>10, RoundingsOutOfRange DEF InRange
  <2>2. 2 * Q * (N - 1) \in 2 * top - Q .. 2 * top + Q
    BY <1>3
  <2> HIDE DEF top
  <2> QED
    BY <2>1, <2>2 DEF A, a, x, top
<1>11. A < 0 \/ A > top \/ A \in 0 .. top
  <2>1. A \in Int /\ top \in Int
    BY <1>5, <1>7
  <2> HIDE DEF top
  <2> QED
    BY <2>1
<1> QED
  BY <1>8, <1>9, <1>10, <1>11

\* While the CRTC is on, every pixel grabbed has the colours of the last commit,
\* whichever form build gave them, and without a ramp they are as close as levels
\* can be: for every number of levels, matrix and ramp (build, fuse, apply).
THEOREM ColoursAreAlwaysAsProgrammed == ColorSpec => []ColoursAreAsProgrammed
<1>1. ColorInit => ColorInv
  BY DEF ColorInit, ColorInv
<1>2. ColorInv /\ [ColorNext]_colorVars => ColorInv'
  BY DEF ColorInv, ColorNext, ColorFlush, ColorDisable, colorVars
<1>3. ColorInv => ColoursAreAsProgrammed
  BY ShortcutsDoNotShow, LevelIsNearest DEF ColoursAreAsProgrammed
<1> QED
  BY <1>1, <1>2, <1>3, PTL DEF ColorSpec

-----------------------------------------------------------------------------
(***************************************************************************)
(* PointerPath: for any number of commits, mode sets and events that fit.  *)
(* The pointer is right once everything is handled because the events on   *)
(* their way end with the plane's: as long as nothing is behind, the last  *)
(* bitmap among them, and the last of all, are the plane's, and those that *)
(* were handled are in the shot the session puts back after a mode set.    *)
(***************************************************************************)
CursorEvents ==
    [type : {"hide"}] \cup [type : {"set"}, image : Images] \cup [type : {"move"}, at : Int]

Shots == [image : Images \cup {NoImage}, at : Int, visible : BOOLEAN]

PointerTypes ==
    /\ plane \in [image : Images \cup {NoImage}, at : Int]
    /\ sent \in Seq(CursorEvents) /\ inbox \in Seq(CursorEvents)
    /\ shot \in Shots /\ drawn \in Shots
    /\ upc \in {"idle", "set", "move", "off"}
    /\ upc \in {"set", "move"} => plane.image # NoImage
    /\ upc = "off" => plane.image = NoImage

\* What is on its way, from the file to the session.
Flight == inbox \o sent

\* The bitmap is the last one of es, or held and none in es.
BringsImage(es, image, held) ==
    \/ \E i \in 1 .. Len(es) : /\ es[i] = [type |-> "set", image |-> image]
                               /\ \A j \in 1 .. Len(es) : j > i => es[j].type # "set"
    \/ held = image /\ \A j \in 1 .. Len(es) : es[j].type # "set"

PlaceEvent == IF plane.image = NoImage THEN [type |-> "hide"] ELSE [type |-> "move", at |-> plane.at]

\* The plane's place is the last event of es, or in the shot with es handled.
BringsPlace(es) ==
    \/ es # <<>> /\ es[Len(es)] = PlaceEvent
    \/ /\ es = <<>>
       /\ IF plane.image = NoImage THEN ~drawn.visible /\ ~shot.visible
          ELSE /\ shot = [image |-> plane.image, at |-> Larger(plane.at, 0), visible |-> TRUE]
               /\ lit => drawn = shot

ImageTold ==
    "image" \notin behind /\ upc # "set" /\ plane.image # NoImage
      => BringsImage(Flight, plane.image, shot.image)

PlaceTold ==
    upc = "idle" /\ behind = {} /\ (plane.image = NoImage \/ OnScreen(plane.at)) => BringsPlace(Flight)

PointerInv == PointerTypes /\ drawn.image = shot.image /\ ImageTold /\ PlaceTold

\* With nothing on its way the bitmap is the one held.
LEMMA NothingComing ==
  ASSUME NEW es, NEW image, NEW held, Len(es) = 0, BringsImage(es, image, held)
  PROVE  held = image
  BY DEF BringsImage

LEMMA NoImageShot == NoShot.image = NoImage /\ NoShot.visible = FALSE /\ NoShot \in Shots
  BY DEF NoShot, Shots

\* Sequences that agree everywhere are the same.
LEMMA SameSequence ==
  ASSUME NEW S, NEW a \in Seq(S), NEW b \in Seq(S), Len(a) = Len(b), \A i \in 1 .. Len(a) : a[i] = b[i]
  PROVE  a = b
  OBVIOUS

\* An event sent goes behind those on their way.
LEMMA SentGoesLast ==
  ASSUME NEW S, NEW a \in Seq(S), NEW b \in Seq(S), NEW e \in S
  PROVE  a \o Append(b, e) = Append(a \o b, e)
<1> DEFINE x == a \o Append(b, e)
           y == Append(a \o b, e)
<1>1. /\ x \in Seq(S) /\ y \in Seq(S) /\ Len(x) = Len(a) + Len(b) + 1 /\ Len(y) = Len(a) + Len(b) + 1
      /\ Len(a) \in Nat /\ Len(b) \in Nat
  OBVIOUS
<1>2. ASSUME NEW i \in 1 .. Len(x) PROVE x[i] = y[i]
  <2>1. CASE i <= Len(a)
    BY <1>1, <2>1
  <2>2. CASE i > Len(a) /\ i <= Len(a) + Len(b)
    BY <1>1, <2>2
  <2>3. CASE i = Len(a) + Len(b) + 1
    BY <1>1, <2>3
  <2> QED
    BY <1>1, <2>1, <2>2, <2>3
<1> HIDE DEF x, y
<1>3. x = y
  BY <1>1, <1>2, SameSequence
<1> QED
  BY <1>3 DEF x, y

\* librevdi takes an event over: the order stays.
LEMMA TakenOver ==
  ASSUME NEW S, NEW a \in Seq(S), NEW b \in Seq(S), b # <<>>
  PROVE  Append(a, Head(b)) \o Tail(b) = a \o b
<1> DEFINE x == Append(a, Head(b)) \o Tail(b)
           y == a \o b
<1>1. /\ x \in Seq(S) /\ y \in Seq(S) /\ Len(x) = Len(a) + Len(b) /\ Len(y) = Len(a) + Len(b)
      /\ Len(a) \in Nat /\ Len(b) \in Nat /\ Len(b) >= 1
  OBVIOUS
<1>2. ASSUME NEW i \in 1 .. Len(x) PROVE x[i] = y[i]
  <2>1. CASE i <= Len(a)
    BY <1>1, <2>1
  <2>2. CASE i = Len(a) + 1
    BY <1>1, <2>2
  <2>3. CASE i > Len(a) + 1
    BY <1>1, <2>3
  <2> QED
    BY <1>1, <2>1, <2>2, <2>3
<1> HIDE DEF x, y
<1>3. x = y
  BY <1>1, <1>2, SameSequence
<1> QED
  BY <1>3 DEF x, y

\* The daemon handles the oldest.
LEMMA OldestHandled ==
  ASSUME NEW S, NEW a \in Seq(S), NEW b \in Seq(S), a # <<>>
  PROVE  Tail(a) \o b = Tail(a \o b) /\ Head(a) = Head(a \o b) /\ a \o b # <<>>
<1> DEFINE x == Tail(a) \o b
           y == Tail(a \o b)
<1>1. /\ x \in Seq(S) /\ y \in Seq(S) /\ Len(x) = Len(a) + Len(b) - 1 /\ Len(y) = Len(a) + Len(b) - 1
      /\ Len(a) \in Nat /\ Len(b) \in Nat /\ Len(a) >= 1
  OBVIOUS
<1>2. ASSUME NEW i \in 1 .. Len(x) PROVE x[i] = y[i]
  <2>1. CASE i <= Len(a) - 1
    BY <1>1, <2>1
  <2>2. CASE i > Len(a) - 1
    BY <1>1, <2>2
  <2> QED
    BY <1>1, <2>1, <2>2
<1>3. Head(a) = Head(a \o b) /\ a \o b # <<>>
  BY <1>1
<1> HIDE DEF x, y
<1>4. x = y
  BY <1>1, <1>2, SameSequence
<1> QED
  BY <1>3, <1>4 DEF x, y

\* An event behind the others: of the bitmap, or of none.
LEMMA ImageSent ==
  ASSUME NEW es \in Seq(CursorEvents), NEW e \in CursorEvents, NEW image, NEW held,
         \/ e = [type |-> "set", image |-> image]
         \/ e.type # "set" /\ BringsImage(es, image, held)
  PROVE  BringsImage(Append(es, e), image, held)
<1> DEFINE p == Append(es, e)
<1>1. /\ Len(es) \in Nat /\ Len(p) = Len(es) + 1 /\ p[Len(es) + 1] = e
      /\ \A i \in 1 .. Len(es) : p[i] = es[i]
  OBVIOUS
<1> HIDE DEF p
<1>2. CASE e = [type |-> "set", image |-> image]
  <2>1. Len(es) + 1 \in 1 .. Len(p) /\ \A j \in 1 .. Len(p) : ~(j > Len(es) + 1)
    BY <1>1
  <2>2. BringsImage(p, image, held)
    BY <1>1, <1>2, <2>1 DEF BringsImage
  <2> QED
    BY <2>2 DEF p
<1>3. CASE e.type # "set" /\ BringsImage(es, image, held)
  <2>1. ASSUME NEW i \in 1 .. Len(es), es[i] = [type |-> "set", image |-> image],
               \A j \in 1 .. Len(es) : j > i => es[j].type # "set"
        PROVE  BringsImage(p, image, held)
    <3>1. i \in 1 .. Len(p) /\ p[i] = [type |-> "set", image |-> image]
      BY <1>1, <2>1
    <3>2. ASSUME NEW j \in 1 .. Len(p), j > i PROVE p[j].type # "set"
      BY <1>1, <1>3, <2>1, <3>2
    <3> QED
      BY <3>1, <3>2 DEF BringsImage
  <2>2. ASSUME held = image, \A j \in 1 .. Len(es) : es[j].type # "set"
        PROVE  BringsImage(p, image, held)
    <3>1. ASSUME NEW j \in 1 .. Len(p) PROVE p[j].type # "set"
      BY <1>1, <1>3, <2>2
    <3> QED
      BY <2>2, <3>1 DEF BringsImage
  <2>3. BringsImage(p, image, held)
    BY <1>3, <2>1, <2>2 DEF BringsImage
  <2> QED
    BY <2>3 DEF p
<1> QED
  BY <1>2, <1>3

\* The oldest is handled: a bitmap is held from then on.
LEMMA ImageHandled ==
  ASSUME NEW es \in Seq(CursorEvents), es # <<>>, NEW image, NEW held, BringsImage(es, image, held)
  PROVE  BringsImage(Tail(es), image, IF Head(es).type = "set" THEN Head(es).image ELSE held)
<1> DEFINE t == Tail(es)
           h == IF Head(es).type = "set" THEN Head(es).image ELSE held
<1>1. /\ Len(es) \in Nat /\ Len(es) >= 1 /\ Len(t) = Len(es) - 1 /\ Head(es) = es[1]
      /\ \A i \in 1 .. Len(es) - 1 : t[i] = es[i + 1]
  OBVIOUS
<1> HIDE DEF t
<1>2. ASSUME NEW i \in 1 .. Len(es), es[i] = [type |-> "set", image |-> image],
             \A j \in 1 .. Len(es) : j > i => es[j].type # "set"
      PROVE  BringsImage(t, image, h)
  <2>1. CASE i = 1
    <3>1. h = image
      BY <1>1, <1>2, <2>1
    <3>2. ASSUME NEW j \in 1 .. Len(t) PROVE t[j].type # "set"
      <4>1. j + 1 \in 1 .. Len(es) /\ j + 1 > i /\ t[j] = es[j + 1]
        BY <1>1, <2>1
      <4> QED
        BY <1>2, <4>1
    <3> QED
      BY <3>1, <3>2 DEF BringsImage
  <2>2. CASE i > 1
    <3>1. i - 1 \in 1 .. Len(t) /\ t[i - 1] = es[i]
      <4>1. i - 1 \in 1 .. Len(es) - 1 /\ (i - 1) + 1 = i
        BY <1>1, <2>2
      <4> QED
        BY <1>1, <4>1
    <3>2. ASSUME NEW j \in 1 .. Len(t), j > i - 1 PROVE t[j].type # "set"
      <4>1. j + 1 \in 1 .. Len(es) /\ j + 1 > i /\ t[j] = es[j + 1]
        BY <1>1, <3>2
      <4> QED
        BY <1>2, <4>1
    <3> HIDE DEF h
    <3> QED
      BY <1>2, <3>1, <3>2 DEF BringsImage
  <2> QED
    BY <1>1, <2>1, <2>2
<1>3. ASSUME held = image, \A j \in 1 .. Len(es) : es[j].type # "set"
      PROVE  BringsImage(t, image, h)
  <2>1. h = image
    BY <1>1, <1>3
  <2>2. ASSUME NEW j \in 1 .. Len(t) PROVE t[j].type # "set"
    <3>1. j + 1 \in 1 .. Len(es) /\ t[j] = es[j + 1]
      BY <1>1
    <3> QED
      BY <1>3, <3>1
  <2> QED
    BY <2>1, <2>2 DEF BringsImage
<1>4. BringsImage(t, image, h)
  BY <1>2, <1>3 DEF BringsImage
<1> QED
  BY <1>4 DEF t, h

\* What SendCursor does to the events on their way.
LEMMA SendKeepsOrder ==
  ASSUME PointerTypes, NEW e \in CursorEvents, SendCursor(e), UNCHANGED inbox
  PROVE  /\ sent' \in Seq(CursorEvents) /\ Flight' \in Seq(CursorEvents)
         /\ Fits => Flight' = Append(Flight, e)
         /\ ~Fits => Flight' = Flight
<1>1. sent \in Seq(CursorEvents) /\ inbox \in Seq(CursorEvents)
  BY DEF PointerTypes
<1>2. CASE Fits
  <2>1. sent' = Append(sent, e)
    BY <1>2 DEF SendCursor
  <2>2. inbox \o Append(sent, e) = Append(inbox \o sent, e)
    BY <1>1, SentGoesLast
  <2> QED
    BY <1>1, <1>2, <2>1, <2>2 DEF Flight
<1>3. CASE ~Fits
  BY <1>1, <1>3 DEF SendCursor, Flight
<1> QED
  BY <1>2, <1>3

\* The steps of update_cursor that send.
LEMMA NotifyKeeps == PointerInv /\ (NotifyDisabled \/ NotifySet \/ NotifyMove) => PointerInv'
<1> SUFFICES ASSUME PointerInv, NotifyDisabled \/ NotifySet \/ NotifyMove PROVE PointerInv'
  OBVIOUS
<1>1. PointerTypes /\ ImageTold /\ PlaceTold /\ drawn.image = shot.image
  BY DEF PointerInv
<1>2. UNCHANGED <<plane, inbox, lit, shot, drawn>>
  BY DEF NotifyDisabled, NotifySet, NotifyMove
<1>3. Flight \in Seq(CursorEvents) /\ plane.at \in Int
  BY <1>1 DEF PointerTypes, Flight
<1>4. ASSUME NEW es \in Seq(CursorEvents), NEW e \in CursorEvents
      PROVE  Append(es, e) # <<>> /\ Append(es, e)[Len(Append(es, e))] = e
  OBVIOUS
<1>5. CASE NotifyDisabled
  <2> DEFINE e == [type |-> "hide"]
  <2>1. upc = "off" /\ upc' = "idle" /\ SendCursor(e) /\ e \in CursorEvents
    BY <1>5 DEF NotifyDisabled, CursorEvents
  <2>2. plane.image = NoImage
    BY <1>1, <2>1 DEF PointerTypes
  <2>3. sent' \in Seq(CursorEvents) /\ (Fits => Flight' = Append(Flight, e))
    BY <1>1, <1>2, <2>1, SendKeepsOrder
  <2>4. PointerTypes'
    BY <1>1, <1>2, <2>1, <2>3 DEF PointerTypes
  <2>5. ImageTold'
    BY <1>2, <2>2 DEF ImageTold
  <2>6. PlaceTold'
    <3>1. CASE Fits
      BY <1>2, <1>3, <1>4, <2>1, <2>2, <2>3, <3>1 DEF PlaceTold, BringsPlace, PlaceEvent
    <3>2. CASE ~Fits
      BY <1>5, <3>2 DEF NotifyDisabled, PlaceTold
    <3> QED
      BY <3>1, <3>2
  <2> QED
    BY <1>1, <1>2, <2>4, <2>5, <2>6 DEF PointerInv
<1>6. CASE NotifySet
  <2> DEFINE e == [type |-> "set", image |-> plane.image]
  <2>1. upc = "set" /\ upc' = "move" /\ SendCursor(e)
    BY <1>6 DEF NotifySet
  <2>2. plane.image # NoImage /\ e \in CursorEvents
    BY <1>1, <2>1 DEF PointerTypes, CursorEvents
  <2>3. sent' \in Seq(CursorEvents) /\ (Fits => Flight' = Append(Flight, e))
    BY <1>1, <1>2, <2>1, <2>2, SendKeepsOrder
  <2>4. PointerTypes'
    BY <1>1, <1>2, <2>1, <2>2, <2>3 DEF PointerTypes
  <2>5. ImageTold'
    <3>1. CASE Fits
      BY <1>2, <1>3, <2>2, <2>3, <3>1, ImageSent DEF ImageTold
    <3>2. CASE ~Fits
      BY <1>6, <3>2 DEF NotifySet, ImageTold
    <3> QED
      BY <3>1, <3>2
  <2>6. PlaceTold'
    BY <2>1 DEF PlaceTold
  <2> QED
    BY <1>1, <1>2, <2>4, <2>5, <2>6 DEF PointerInv
<1>7. CASE NotifyMove /\ OnScreen(plane.at)
  <2> DEFINE e == [type |-> "move", at |-> UnclippedOrigin(plane.at)]
  <2>1. upc = "move" /\ upc' = "idle" /\ SendCursor(e)
    BY <1>7 DEF NotifyMove
  <2>2. UnclippedOrigin(plane.at) = plane.at
    BY <1>3 DEF UnclippedOrigin, VisibleDestination, VisibleSource, Larger
  <2>3. plane.image # NoImage /\ e \in CursorEvents /\ e = [type |-> "move", at |-> plane.at]
    BY <1>1, <1>3, <2>1, <2>2 DEF PointerTypes, CursorEvents
  <2> HIDE DEF e
  <2>4. /\ sent' \in Seq(CursorEvents) /\ (Fits => Flight' = Append(Flight, e))
        /\ (~Fits => Flight' = Flight)
    BY <1>1, <1>2, <2>1, <2>3, SendKeepsOrder
  <2>5. PointerTypes'
    BY <1>1, <1>2, <2>1, <2>4 DEF PointerTypes
  <2>6. "image" \notin behind' => "image" \notin behind
    BY <1>7 DEF NotifyMove
  <2>7. ImageTold'
    <3> SUFFICES ASSUME "image" \notin behind' PROVE BringsImage(Flight', plane.image, shot.image)
      BY <1>2 DEF ImageTold
    <3>1. BringsImage(Flight, plane.image, shot.image)
      BY <1>1, <2>1, <2>3, <2>6 DEF ImageTold
    <3>2. e.type # "set"
      BY <2>3
    <3> QED
      BY <1>3, <2>3, <2>4, <3>1, <3>2, ImageSent
  <2>8. PlaceTold'
    <3>1. CASE Fits
      BY <1>2, <1>3, <1>4, <2>1, <2>3, <2>4, <3>1, ZenonT(40) DEF PlaceTold, BringsPlace, PlaceEvent
    <3>2. CASE ~Fits
      BY <1>7, <3>2 DEF NotifyMove, PlaceTold
    <3> QED
      BY <3>1, <3>2
  <2> QED
    BY <1>1, <1>2, <2>5, <2>7, <2>8 DEF PointerInv
<1>8. CASE NotifyMove /\ ~OnScreen(plane.at)
  <2>1. upc = "move" /\ upc' = "idle" /\ UNCHANGED <<sent, behind>>
    BY <1>8 DEF NotifyMove
  <2>2. plane.image # NoImage
    BY <1>1, <2>1 DEF PointerTypes
  <2>3. PointerTypes'
    BY <1>1, <1>2, <2>1 DEF PointerTypes
  <2>4. ImageTold' /\ PlaceTold'
    BY <1>1, <1>2, <1>8, <2>1, <2>2 DEF ImageTold, PlaceTold, Flight, OnScreen
  <2> QED
    BY <1>1, <1>2, <2>3, <2>4 DEF PointerInv
<1> QED
  BY <1>5, <1>6, <1>7, <1>8

\* update_cursor takes the new plane over, and sends its first event next.
LEMMA UpdateKeeps ==
  ASSUME PointerInv, NEW image \in Images \cup {NoImage}, NEW at \in (0 - Size) .. Width,
         UpdateCursor(image, at)
  PROVE  PointerInv'
<1>1. PointerTypes /\ ImageTold /\ drawn.image = shot.image /\ upc = "idle"
  BY DEF PointerInv, UpdateCursor
<1>2. UNCHANGED <<sent, inbox, lit, shot, drawn>> /\ plane' = [image |-> image, at |-> at]
  BY DEF UpdateCursor
<1>3. /\ ~watched => upc' = "idle" /\ behind' = {"image", "place"}
      /\ watched => /\ behind' = behind
                    /\ upc' = IF image = NoImage THEN "off" ELSE IF image = plane.image THEN "move" ELSE "set"
  BY DEF UpdateCursor
<1>4. at \in Int
  BY PointerAssumption
<1>5. plane' \in [image : Images \cup {NoImage}, at : Int] /\ plane'.image = image
  BY <1>2, <1>4
<1>6. upc' \in {"idle", "set", "move", "off"} /\ (upc' \in {"set", "move"} => image # NoImage)
      /\ (upc' = "off" => image = NoImage)
  BY <1>3
<1>7. PointerTypes'
  BY <1>1, <1>2, <1>5, <1>6 DEF PointerTypes
<1>8. ImageTold' /\ PlaceTold'
  <2>1. Flight' = Flight
    BY <1>2 DEF Flight
  <2>2. CASE watched
    BY <1>1, <1>2, <1>3, <1>5, <2>1, <2>2 DEF ImageTold, PlaceTold
  <2>3. CASE ~watched
    BY <1>3, <2>3 DEF ImageTold, PlaceTold
  <2> QED
    BY <2>2, <2>3
<1> QED
  BY <1>1, <1>2, <1>7, <1>8 DEF PointerInv

\* dispatch_event: the order stays, unless the bitmap could not be had.
LEMMA DispatchKeeps == PointerInv /\ DispatchEvent => PointerInv'
<1> SUFFICES ASSUME PointerInv, DispatchEvent PROVE PointerInv'
  OBVIOUS
<1>1. PointerTypes /\ ImageTold /\ PlaceTold /\ drawn.image = shot.image
  BY DEF PointerInv
<1>2. sent # <<>> /\ sent' = Tail(sent) /\ UNCHANGED <<plane, upc, lit, shot, drawn>>
  BY DEF DispatchEvent
<1>3. sent \in Seq(CursorEvents) /\ inbox \in Seq(CursorEvents) /\ Head(sent) \in CursorEvents
  BY <1>1, <1>2 DEF PointerTypes
<1>4. \/ inbox' = Append(inbox, Head(sent)) /\ behind' = behind
      \/ inbox' = Append(inbox, [type |-> "hide"]) /\ behind' = {"image", "place"}
  BY DEF DispatchEvent
<1>5. [type |-> "hide"] \in CursorEvents
  BY DEF CursorEvents
<1>6. PointerTypes'
  <2>1. sent' \in Seq(CursorEvents)
    BY <1>2, <1>3
  <2>2. inbox' \in Seq(CursorEvents)
    <3>1. ASSUME NEW e \in CursorEvents PROVE Append(inbox, e) \in Seq(CursorEvents)
      BY <1>3
    <3> QED
      BY <1>3, <1>4, <1>5, <3>1
  <2> QED
    BY <1>1, <1>2, <2>1, <2>2 DEF PointerTypes
<1>7. CASE inbox' = Append(inbox, Head(sent)) /\ behind' = behind
  <2>1. Flight' = Flight
    BY <1>2, <1>3, <1>7, TakenOver DEF Flight
  <2>2. ImageTold' /\ PlaceTold'
    BY <1>1, <1>2, <1>7, <2>1 DEF ImageTold, PlaceTold, BringsPlace, PlaceEvent
  <2> QED
    BY <1>1, <1>2, <1>6, <2>2 DEF PointerInv
<1>8. CASE behind' = {"image", "place"}
  BY <1>1, <1>2, <1>6, <1>8 DEF PointerInv, ImageTold, PlaceTold
<1> QED
  BY <1>4, <1>7, <1>8

\* A mode set puts the shot back; closing the stream leaves it.
LEMMA SwitchKeeps == PointerInv /\ (RearmCursor \/ DeactivateMode) => PointerInv'
<1> SUFFICES ASSUME PointerInv, RearmCursor \/ DeactivateMode PROVE PointerInv'
  OBVIOUS
<1>1. PointerTypes /\ ImageTold /\ PlaceTold /\ drawn.image = shot.image
  BY DEF PointerInv
<1>2. UNCHANGED <<plane, upc, sent, inbox, shot, behind>>
  BY DEF RearmCursor, DeactivateMode
<1>3. /\ drawn' \in Shots /\ drawn'.image = shot.image
      /\ (~drawn.visible /\ ~shot.visible => ~drawn'.visible)
      /\ (shot.visible /\ lit' /\ (lit => drawn = shot) => drawn' = shot)
  <2>1. CASE RearmCursor
    BY <1>1, <2>1 DEF RearmCursor, PointerTypes, Shots, NoShot
  <2>2. CASE DeactivateMode
    BY <1>1, <2>2 DEF DeactivateMode, PointerTypes
  <2> QED
    BY <2>1, <2>2
<1>4. PointerTypes' /\ Flight' = Flight /\ ImageTold'
  BY <1>1, <1>2, <1>3 DEF PointerTypes, Flight, ImageTold
<1>5. PlaceTold'
  <2> SUFFICES ASSUME upc = "idle", behind = {}, plane.image = NoImage \/ OnScreen(plane.at)
               PROVE  BringsPlace(Flight)'
    BY <1>2 DEF PlaceTold
  <2>1. BringsPlace(Flight)
    BY <1>1 DEF PlaceTold
  <2>2. PlaceEvent' = PlaceEvent
    BY <1>2 DEF PlaceEvent
  <2>3. CASE Flight # <<>> /\ Flight[Len(Flight)] = PlaceEvent
    BY <1>4, <2>2, <2>3, Zenon DEF BringsPlace
  <2>4. CASE Flight = <<>> /\ plane.image = NoImage /\ ~drawn.visible /\ ~shot.visible
    BY <1>2, <1>3, <1>4, <2>4, Zenon DEF BringsPlace
  <2>5. CASE /\ Flight = <<>> /\ plane.image # NoImage
             /\ shot = [image |-> plane.image, at |-> Larger(plane.at, 0), visible |-> TRUE]
             /\ lit => drawn = shot
    <3>1. lit' => drawn' = shot
      BY <1>3, <2>5, Zenon
    <3> QED
      BY <1>2, <1>4, <2>5, <3>1, Zenon DEF BringsPlace
  <2> QED
    BY <2>1, <2>3, <2>4, <2>5, Zenon DEF BringsPlace
<1> QED
  BY <1>1, <1>2, <1>3, <1>4, <1>5 DEF PointerInv

\* The session's pointer after each event.
LEMMA SessionPointer ==
  ASSUME PointerTypes, drawn.image = shot.image, HandleEvent, NEW e, e = Head(inbox), e \in CursorEvents
  PROVE  /\ shot' \in Shots /\ drawn' \in Shots /\ drawn'.image = shot'.image
         /\ shot'.image = IF e.type = "set" THEN e.image ELSE shot.image
         /\ e.type = "hide" => ~drawn'.visible /\ ~shot'.visible
         /\ e.type = "move" /\ lit /\ shot.image # NoImage =>
              /\ shot' = [image |-> shot.image, at |-> Larger(e.at, 0), visible |-> TRUE]
              /\ drawn' = shot'
         /\ e.type = "move" /\ ~lit => "place" \in behind'
         /\ behind \subseteq behind'
<1>1. shot \in Shots /\ drawn \in Shots
  BY DEF PointerTypes
<1>2. CASE e.type = "set"
  <2>1. SetImage(e.image) /\ behind' = behind /\ e.image \in Images
    BY <1>2 DEF HandleEvent, CursorEvents
  <2> QED
    BY <1>1, <1>2, <2>1 DEF SetImage, Shots, NoShot
<1>3. CASE e.type = "hide"
  <2>1. Hide /\ behind' = behind
    BY <1>3 DEF HandleEvent
  <2>2. drawn' = [image |-> drawn.image, at |-> 0, visible |-> FALSE]
    BY <1>1, <2>1 DEF Hide, Shots
  <2>3. shot' = [image |-> shot.image, at |-> shot.at, visible |-> FALSE]
    <3>1. CASE shot = NoShot
      BY <2>1, <3>1 DEF Hide, NoShot
    <3>2. CASE shot # NoShot
      <4>1. shot' = [shot EXCEPT !.visible = FALSE]
        BY <2>1, <3>2 DEF Hide
      <4> QED
        BY <1>1, <4>1 DEF Shots
    <3> QED
      BY <3>1, <3>2
  <2>4. /\ drawn'.image = drawn.image /\ ~drawn'.visible
        /\ shot'.image = shot.image /\ ~shot'.visible
    BY <2>2, <2>3
  <2>5. shot' \in Shots /\ drawn' \in Shots
    BY <1>1, <2>2, <2>3 DEF Shots
  <2> QED
    BY <1>3, <2>1, <2>4, <2>5
<1>4. CASE e.type = "move" /\ lit
  <2>1. MoveTo(e.at) /\ behind' = behind /\ e.at \in Int
    BY <1>4 DEF HandleEvent, CursorEvents
  <2>2. Larger(e.at, 0) \in Int
    BY <2>1 DEF Larger
  <2>3. drawn' = [image |-> drawn.image, at |-> Larger(e.at, 0), visible |-> TRUE]
    BY <1>1, <2>1 DEF MoveTo, Shots
  <2>4. shot' = IF shot = NoShot THEN shot
                ELSE [image |-> shot.image, at |-> Larger(e.at, 0), visible |-> TRUE]
    <3>1. CASE shot = NoShot
      BY <2>1, <3>1 DEF MoveTo
    <3>2. CASE shot # NoShot
      <4>1. shot' = [shot EXCEPT !.at = Larger(e.at, 0), !.visible = TRUE]
        BY <2>1, <3>2 DEF MoveTo
      <4>2. shot' = [image |-> shot.image, at |-> Larger(e.at, 0), visible |-> TRUE]
        BY <1>1, <4>1 DEF Shots
      <4> QED
        BY <3>2, <4>2
    <3> QED
      BY <3>1, <3>2
  <2>5. shot.image # NoImage => shot # NoShot
    BY NoImageShot, Zenon
  <2> QED
    BY <1>1, <1>4, <2>1, <2>2, <2>3, <2>4, <2>5 DEF Shots
<1>5. CASE e.type = "move" /\ ~lit
  BY <1>1, <1>5 DEF HandleEvent
<1>6. e.type \in {"set", "hide", "move"}
  BY DEF CursorEvents
<1> QED
  BY <1>2, <1>3, <1>4, <1>5, <1>6

\* handle_event: what it takes from the events on their way, it puts in the
\* shot.
LEMMA HandlePointerKeeps == PointerInv /\ HandleEvent => PointerInv'
<1> SUFFICES ASSUME PointerInv, HandleEvent PROVE PointerInv'
  OBVIOUS
<1>1. PointerTypes /\ ImageTold /\ PlaceTold /\ drawn.image = shot.image
  BY DEF PointerInv
<1>2. inbox # <<>> /\ inbox' = Tail(inbox) /\ UNCHANGED <<plane, upc, sent, lit>>
  BY DEF HandleEvent
<1>3. sent \in Seq(CursorEvents) /\ inbox \in Seq(CursorEvents)
  BY <1>1 DEF PointerTypes
<1> DEFINE e == Head(inbox)
<1>4. /\ Flight \in Seq(CursorEvents) /\ Flight # <<>> /\ e = Head(Flight) /\ Flight' = Tail(Flight)
      /\ e \in CursorEvents
  BY <1>2, <1>3, OldestHandled DEF Flight
<1> HIDE DEF e
<1>5. /\ shot' \in Shots /\ drawn' \in Shots /\ drawn'.image = shot'.image
      /\ shot'.image = IF e.type = "set" THEN e.image ELSE shot.image
      /\ e.type = "hide" => ~drawn'.visible /\ ~shot'.visible
      /\ e.type = "move" /\ lit /\ shot.image # NoImage =>
           /\ shot' = [image |-> shot.image, at |-> Larger(e.at, 0), visible |-> TRUE]
           /\ drawn' = shot'
      /\ e.type = "move" /\ ~lit => "place" \in behind'
      /\ behind \subseteq behind'
  BY <1>1, <1>4, SessionPointer DEF e
<1>6. PointerTypes'
  <2>1. inbox' \in Seq(CursorEvents)
    BY <1>2, <1>3
  <2> QED
    BY <1>1, <1>2, <1>5, <2>1 DEF PointerTypes
<1>7. ImageTold'
  <2> SUFFICES ASSUME "image" \notin behind', upc # "set", plane.image # NoImage
               PROVE  BringsImage(Flight', plane.image, shot'.image)
    BY <1>2 DEF ImageTold
  <2>1. BringsImage(Flight, plane.image, shot.image)
    BY <1>1, <1>5 DEF ImageTold
  <2>2. BringsImage(Tail(Flight), plane.image, IF Head(Flight).type = "set" THEN Head(Flight).image ELSE shot.image)
    BY <1>4, <2>1, ImageHandled
  <2> QED
    BY <1>4, <1>5, <2>2
<1>8. PlaceTold'
  <2> SUFFICES ASSUME upc = "idle", behind' = {}, plane.image = NoImage \/ OnScreen(plane.at)
               PROVE  BringsPlace(Flight)'
    BY <1>2 DEF PlaceTold
  <2>1. behind = {} /\ BringsPlace(Flight)
    BY <1>1, <1>5 DEF PlaceTold
  <2>2. Flight[Len(Flight)] = PlaceEvent /\ PlaceEvent' = PlaceEvent
    BY <1>2, <1>4, <2>1 DEF BringsPlace, PlaceEvent
  <2>3. /\ Len(Flight) \in Nat \ {0} /\ Len(Tail(Flight)) = Len(Flight) - 1
        /\ Len(Flight) > 1 => Tail(Flight) # <<>> /\ Tail(Flight)[Len(Tail(Flight))] = Flight[Len(Flight)]
        /\ Len(Flight) = 1 => Tail(Flight) = <<>> /\ Head(Flight) = Flight[Len(Flight)]
    <3>1. Len(Flight) \in Nat \ {0} /\ Len(Tail(Flight)) = Len(Flight) - 1 /\ Tail(Flight) \in Seq(CursorEvents)
      BY <1>4
    <3>2. Len(Flight) > 1 => Tail(Flight) # <<>> /\ Tail(Flight)[Len(Tail(Flight))] = Flight[Len(Flight)]
      BY <1>4, <3>1
    <3>3. Len(Flight) = 1 => Tail(Flight) = <<>> /\ Head(Flight) = Flight[Len(Flight)]
      BY <1>4, <3>1
    <3> QED
      BY <3>1, <3>2, <3>3
  <2>4. CASE Len(Flight) > 1
    BY <1>4, <2>2, <2>3, <2>4 DEF BringsPlace
  <2>5. CASE Len(Flight) = 1
    <3>1. e = PlaceEvent /\ Flight' = <<>>
      BY <1>4, <2>2, <2>3, <2>5
    <3>2. CASE plane.image = NoImage
      <4>1. e.type = "hide"
        BY <3>1, <3>2 DEF PlaceEvent
      <4> QED
        BY <1>2, <1>5, <3>1, <3>2, <4>1 DEF BringsPlace
    <3>3. CASE plane.image # NoImage
      <4>1. e.type = "move" /\ e.at = plane.at
        BY <3>1, <3>3 DEF PlaceEvent
      <4>2. lit
        BY <1>5, <4>1
      <4>3. BringsImage(Flight', plane.image, shot'.image)
        BY <1>2, <1>7, <3>3 DEF ImageTold
      <4>4. Len(Flight') = 0
        BY <3>1
      <4>5. shot.image = plane.image
        <5>1. shot'.image = plane.image
          BY <4>3, <4>4, NothingComing, Zenon
        <5> QED
          BY <1>5, <4>1, <5>1, Zenon
      <4> QED
        BY <1>2, <1>5, <3>1, <3>3, <4>1, <4>2, <4>5 DEF BringsPlace
    <3> QED
      BY <3>2, <3>3
  <2>6. Len(Flight) > 1 \/ Len(Flight) = 1
    <3>1. \A n \in Nat \ {0} : n > 1 \/ n = 1
      OBVIOUS
    <3> QED
      BY <2>3, <3>1, Zenon
  <2> QED
    BY <2>4, <2>5, <2>6, Zenon
<1> QED
  BY <1>5, <1>6, <1>7, <1>8 DEF PointerInv

\* Whatever the compositor commits, however the output is switched and
\* whichever events are lost, a lit dock that missed nothing shows the plane's
\* pointer once every event is handled: the bitmap, the place and whether there
\* is one survive the channel, handle_event and the mode sets in between.
THEOREM PointerIsAlwaysThePlanes == PointerSpec => []PointerIsThePlanes
<1>1. PointerInit => PointerInv
  <2> SUFFICES ASSUME PointerInit PROVE PointerInv
    OBVIOUS
  <2>1. Flight = <<>> /\ <<>> \in Seq(CursorEvents)
    BY DEF PointerInit, Flight
  <2>2. plane \in [image : Images \cup {NoImage}, at : Int] /\ plane.image = NoImage
    BY DEF PointerInit
  <2>3. PointerTypes
    BY <2>1, <2>2, NoImageShot, Zenon DEF PointerInit, PointerTypes
  <2>4. ImageTold
    BY <2>2, Zenon DEF ImageTold
  <2>5. PlaceTold
    BY <2>1, <2>2, NoImageShot, Zenon DEF PointerInit, PlaceTold, BringsPlace
  <2> QED
    BY <2>3, <2>4, <2>5, Zenon DEF PointerInit, PointerInv
<1>2. PointerInv /\ [PointerNext]_pointerVars => PointerInv'
  <2> SUFFICES ASSUME PointerInv, [PointerNext]_pointerVars PROVE PointerInv'
    OBVIOUS
  <2>1. CASE UNCHANGED pointerVars
    BY <2>1 DEF pointerVars, PointerInv, PointerTypes, ImageTold, PlaceTold, Flight, BringsPlace, PlaceEvent
  <2>2. CASE PointerNext
    BY <2>2, UpdateKeeps, NotifyKeeps, DispatchKeeps, HandlePointerKeeps, SwitchKeeps DEF PointerNext
  <2> QED
    BY <2>1, <2>2
<1>3. PointerInv => PointerIsThePlanes
  <2> SUFFICES ASSUME PointerInv, Settled, lit, behind = {}, plane.image = NoImage \/ OnScreen(plane.at)
               PROVE  /\ plane.image = NoImage => ~drawn.visible
                      /\ plane.image # NoImage => drawn = [image |-> plane.image, at |-> Larger(plane.at, 0), visible |-> TRUE]
    BY DEF PointerIsThePlanes
  <2>1. Flight = <<>> /\ BringsPlace(Flight)
    <3>1. upc = "idle" /\ sent = <<>> /\ inbox = <<>>
      BY Zenon DEF Settled
    <3>2. Flight = <<>>
      BY <3>1 DEF Flight
    <3> QED
      BY <3>1, <3>2, ZenonT(40) DEF PointerInv, PlaceTold
  <2> QED
    BY <2>1 DEF BringsPlace
<1> QED
  BY <1>1, <1>2, <1>3, PTL DEF PointerSpec

=============================================================================
