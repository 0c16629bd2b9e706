---------------------------- MODULE ScanoutProofs ----------------------------
(***************************************************************************)
(* For every grid, every set of contents and every delivery that covers    *)
(* the ring: what the ledger says is paid for is in every slot; and what   *)
(* owed_rects hands to the codec describes the debt.                       *)
(*                                                                         *)
(* RingSettled is not inductive: it speaks of the moment nothing is owed.  *)
(* LedgerHonest says what the slots hold while a debt is being paid, slot  *)
(* by slot, and the other parts of IInv say what the ledger knows of the   *)
(* frame in flight.                                                        *)
(***************************************************************************)
EXTENDS Scanout, OwedRects, FiniteSetTheorems, WellFoundedInduction, TLAPS

\* The provers every leaf that names none is given, and their seconds.
USE ZenonT(10), SMTT(30)

(***************************************************************************)
(* Facts about the remainder: the trailer of a frame names slot seq % 3    *)
(* (records.rs), and sequences wrap.                                       *)
(***************************************************************************)

\* A remainder is a slot of the ring.
LEMMA RemainderRange ==
    ASSUME NEW n \in Nat \ {0}, NEW a \in Int
    PROVE  a % n \in 0 .. n-1
  OBVIOUS

\* Quotient and remainder recompose the number.
LEMMA RemainderDivision ==
    ASSUME NEW n \in Nat \ {0}, NEW a \in Int
    PROVE  a = n * (a \div n) + (a % n) /\ a \div n \in Int
  OBVIOUS

\* A number has one quotient and one remainder.
LEMMA RemainderUnique ==
    ASSUME NEW n \in Nat \ {0}, NEW d \in Int, NEW e \in Int,
           NEW r \in 0 .. n-1, NEW s \in 0 .. n-1,
           n * d + r = n * e + s
    PROVE  d = e /\ r = s
<1>1. CASE d > e
  <2>1. n * (d - e) >= n BY <1>1
  <2>2. n * (d - e) = n * d - n * e OBVIOUS
  <2> QED BY <2>1, <2>2
<1>2. CASE d < e
  <2>1. n * (e - d) >= n BY <1>2
  <2>2. n * (e - d) = n * e - n * d OBVIOUS
  <2> QED BY <2>1, <2>2
<1>3. CASE d = e BY <1>3
<1> QED BY <1>1, <1>2, <1>3

\* Whole turns of the ring lead back to the same slot.
LEMMA RemainderShift ==
    ASSUME NEW n \in Nat \ {0}, NEW a \in Int, NEW q \in Int
    PROVE  (a + n * q) % n = a % n
<1> DEFINE x == a + n * q
           dx == x \div n
           rx == x % n
           da == a \div n
           ra == a % n
<1>0. n * q \in Int OBVIOUS
<1>1. x \in Int BY <1>0
<1>2. x = n * dx + rx /\ dx \in Int /\ rx \in 0 .. n-1 BY <1>1, RemainderDivision, RemainderRange
<1>3. a = n * da + ra /\ da \in Int /\ ra \in 0 .. n-1 BY RemainderDivision, RemainderRange
<1> HIDE DEF dx, rx, da, ra
<1>4. n * (da + q) = n * da + n * q BY <1>3
<1>5. n * dx + rx = n * (da + q) + ra BY <1>2, <1>3, <1>4
<1>6. da + q \in Int BY <1>3
<1>7. rx = ra BY RemainderUnique, <1>2, <1>3, <1>5, <1>6
<1> QED BY <1>7 DEF rx, ra

\* A counter that wraps after whole turns of the ring keeps its slot.
LEMMA RemainderAligned ==
    ASSUME NEW n \in Nat \ {0}, NEW m \in Nat \ {0}, m % n = 0, NEW a \in Int
    PROVE  (a % m) % n = a % n
<1> DEFINE c == m \div n  d == a \div m  r == a % m
<1>1. m = n * c /\ c \in Int BY RemainderDivision
<1>2. a = m * d + r /\ d \in Int /\ r \in Int BY RemainderDivision, RemainderRange
<1> HIDE DEF c, d, r
<1>3. m * d = n * (c * d) /\ c * d \in Int BY <1>1, <1>2
<1>4. a = r + n * (c * d) BY <1>2, <1>3
<1>5. (r + n * (c * d)) % n = r % n BY <1>2, <1>3, RemainderShift
<1> QED BY <1>4, <1>5 DEF r

\* Reducing an operand first does not change a remainder.
LEMMA RemainderAbsorb ==
    ASSUME NEW n \in Nat \ {0}, NEW a \in Int, NEW b \in Int
    PROVE  ((a % n) + b) % n = (a + b) % n
<1> DEFINE d == a \div n  r == a % n
<1>1. a = n * d + r /\ d \in Int /\ r \in Int BY RemainderDivision, RemainderRange
<1> HIDE DEF d, r
<1>2. a + b = (r + b) + n * d BY <1>1
<1>3. r + b \in Int BY <1>1
<1>4. ((r + b) + n * d) % n = (r + b) % n BY <1>1, <1>3, RemainderShift
<1> QED BY <1>2, <1>4 DEF r

\* Walking as many steps as there are slots visits every slot.
LEMMA RemainderSurjective ==
    ASSUME NEW n \in Nat \ {0}, NEW x \in Int, NEW b \in 0 .. n-1
    PROVE  \E k \in 0 .. n-1 : (x + k) % n = b
<1> DEFINE k == (b - x) % n
<1>1. k \in 0..n-1 BY RemainderRange
<1>2. (x + k) % n = (k + x) % n BY <1>1
<1>a. b - x \in Int OBVIOUS
<1>3. (k + x) % n = ((b - x) + x) % n BY <1>a, RemainderAbsorb
<1>4. ((b - x) + x) % n = b OBVIOUS
<1> QED BY <1>1, <1>2, <1>3, <1>4

-----------------------------------------------------------------------------

\* A body in the cache is the one its hash names (encode()).
CacheHonest == \A s \in Strips : bodies[s] # NoHash => bodies[s] = body_hashes[s]

\* A strip published with other content than the last surface's is charged in
\* full, whether its frame is on its way or failed (plan()).
ChangesCharged ==
    ~keyframe_owed =>
        \A s \in Strips : hashes[s] # last_surface[s] => debt[s] = DamageFrames

\* What plan() selected is what the frame carries, and the slots submitted so
\* far hold it (present_rgb()).
FlightHonest ==
    /\ plan = "None" => records = Blank /\ repeat = 0
    /\ plan # "None" => pending = last_surface /\ repeat <= Presentations
    /\ plan = "Keyframe" => records = last_surface
    /\ plan = "Damage" => /\ ~keyframe_owed
                          /\ \A s \in Strips : debt[s] > 0 => records[s] = last_surface[s]
    /\ \A s \in Strips, j \in Nat :
          j < repeat /\ records[s] # NoHash =>
              dock[RingPhase(frame_seq + j)][s] = records[s]

IInv ==
    /\ TypeOK
    /\ LedgerHonest
    /\ BodiesAreCurrent
    /\ CacheHonest
    /\ ChangesCharged
    /\ FlightHonest

-----------------------------------------------------------------------------
\* The constants of the ring, as the remainder lemmas want them.
LEMMA RingConstants ==
    /\ RingSlots \in Nat \ {0} /\ RingSlots \in Int
    /\ SeqMod \in Nat \ {0}
    /\ DeliveryCoversRing => SeqMod % RingSlots = 0
BY DeliveryAssumption DEF DeliveryCoversRing

\* The trailer names a slot of the ring whatever the sequence (ring_phase()).
LEMMA PhaseIsSlot ==
    ASSUME NEW x \in Int
    PROVE  RingPhase(x) \in Slots
<1>1. x % SeqMod \in 0 .. SeqMod - 1
  BY RingConstants, RemainderRange, Zenon
<1>2. x % SeqMod \in Int
  BY <1>1, RingConstants
<1>3. (x % SeqMod) % RingSlots \in 0 .. RingSlots - 1
  BY <1>2, RingConstants, RemainderRange, Zenon
<1> QED
  BY <1>3, Zenon DEF RingPhase, Slots

\* When the wrap is whole turns of the ring, the phase is the plain remainder.
LEMMA PhaseIsRemainder ==
    ASSUME DeliveryCoversRing, NEW x \in Int
    PROVE  RingPhase(x) = x % RingSlots
BY RingConstants, RemainderAligned, Zenon DEF RingPhase

\* A whole turn of the ring comes back to its slot.
LEMMA PhaseTurn ==
    ASSUME DeliveryCoversRing, NEW x \in Int
    PROVE  RingPhase(x + RingSlots) = RingPhase(x)
<1>1. (x + RingSlots * 1) % RingSlots = x % RingSlots
  <2>1. 1 \in Int
    OBVIOUS
  <2> QED
    BY <2>1, RingConstants, RemainderShift, Zenon
<1>2. x + RingSlots \in Int /\ RingSlots * 1 = RingSlots
  BY RingConstants
<1>3. /\ RingPhase(x + RingSlots) = (x + RingSlots) % RingSlots
      /\ RingPhase(x) = x % RingSlots
  BY <1>2, PhaseIsRemainder, Zenon
<1> QED
  BY <1>1, <1>2, <1>3, Zenon

\* Wrapping the counter does not move the phases ahead of it.
LEMMA PhaseWrap ==
    ASSUME DeliveryCoversRing, NEW x \in Int, NEW k \in Int
    PROVE  RingPhase((x % SeqMod) + k) = RingPhase(x + k)
<1> DEFINE m == x % SeqMod
<1>0. m \in 0 .. SeqMod - 1
  BY RingConstants, RemainderRange, Zenon
<1>1. m \in Int
  BY <1>0, RingConstants
<1>2. m % RingSlots = x % RingSlots
  BY RingConstants, RemainderAligned, Zenon
<1> HIDE DEF m
<1>3. ((m % RingSlots) + k) % RingSlots = (m + k) % RingSlots
  BY <1>1, RingConstants, RemainderAbsorb, Zenon
<1>4. ((x % RingSlots) + k) % RingSlots = (x + k) % RingSlots
  BY RingConstants, RemainderAbsorb, Zenon
<1>5. m + k \in Int /\ x + k \in Int
  BY <1>1
<1>6. /\ RingPhase(m + k) = (m + k) % RingSlots
      /\ RingPhase(x + k) = (x + k) % RingSlots
  BY <1>5, PhaseIsRemainder, Zenon
<1>7. RingPhase(m + k) = RingPhase(x + k)
  BY <1>2, <1>3, <1>4, <1>6, Zenon
<1> QED
  BY <1>7, Zenon DEF m

\* As many presentations as there are slots reach every one of them.
LEMMA PhasesCoverRing ==
    ASSUME DeliveryCoversRing, NEW x \in Int, NEW b \in Slots
    PROVE  \E k \in Slots : RingPhase(x + k) = b
<1>1. b \in 0 .. RingSlots - 1
  BY DEF Slots
<1>2. PICK k \in 0 .. RingSlots - 1 : (x + k) % RingSlots = b
  BY <1>1, RingConstants, RemainderSurjective, Zenon
<1>3. x + k \in Int
  BY RingConstants
<1>4. RingPhase(x + k) = b
  BY <1>2, <1>3, PhaseIsRemainder, Zenon
<1> QED
  BY <1>4 DEF Slots

\* The macro-tile closure of what is owed carries all of it, and only strips.
LEMMA ClosureCovers ==
    ASSUME NEW due \in SUBSET Strips
    PROVE  due \subseteq MacroClosure(due) /\ MacroClosure(due) \subseteq Strips
BY DEF MacroClosure

-----------------------------------------------------------------------------
\* The first state owes a keyframe and has nothing in flight.
LEMMA InitIInv == Init => IInv
<1> SUFFICES ASSUME Init PROVE IInv
  OBVIOUS
<1> USE DEF Init, Blank, NoDebt, Filled
<1>1. TypeOK
  <2>1. /\ debt \in [Strips -> 0 .. DamageFrames]
        /\ frame_seq \in 0 .. SeqMod - 1
        /\ repeat \in 0 .. KeyframePresentations + DeltaPresentations
    BY DeliveryAssumption
  <2>2. dock \in [Slots -> [Strips -> Contents \cup {Unknown, Black}]]
    OBVIOUS
  <2> QED
    BY <2>1, <2>2 DEF TypeOK, Surface, Hashes
<1>2. LedgerHonest /\ ChangesCharged
  BY DEF LedgerHonest, ChangesCharged
<1>3. BodiesAreCurrent /\ CacheHonest
  BY DEF BodiesAreCurrent, CacheHonest
<1>4. FlightHonest
  BY DEF FlightHonest
<1> QED
  BY <1>1, <1>2, <1>3, <1>4 DEF IInv

-----------------------------------------------------------------------------
\* A redraw touches nothing the ledger speaks of.
LEMMA DrawIInv ==
    ASSUME IInv, NEW s \in Strips, NEW c \in Contents, Draw(s, c)
    PROVE  IInv'
<1> USE DEF Draw, ledgerVars, outputVars, callVars
<1>1. TypeOK'
  BY DEF IInv, TypeOK, Surface
<1>2. LedgerHonest' /\ BodiesAreCurrent' /\ CacheHonest' /\ ChangesCharged'
  BY DEF IInv, LedgerHonest, BodiesAreCurrent, CacheHonest, ChangesCharged, RingPhase
<1>3. FlightHonest'
  BY DEF IInv, FlightHonest, Presentations, RingPhase, Blank
<1> QED
  BY <1>1, <1>2, <1>3 DEF IInv

\* A mode set owes a keyframe, so the ledger claims nothing of the slots.
LEMMA ProgramModeIInv ==
    ASSUME IInv, NEW w \in Sizes, NEW n \in CarrierCounts, ProgramMode(w, n)
    PROVE  IInv'
<1> USE DEF ProgramMode, callVars
<1>1. TypeOK'
  <2>1. n + 1 \in Int
    BY DeliveryAssumption
  <2>2. frame_seq' \in 0 .. SeqMod - 1
    BY <2>1, RingConstants, RemainderRange, Zenon
  <2>3. dock' \in [Slots -> [Strips -> Contents \cup {Unknown, Black}]]
    BY DEF Filled
  <2> QED
    BY <2>2, <2>3 DEF IInv, TypeOK
<1>2. LedgerHonest' /\ ChangesCharged'
  BY DEF LedgerHonest, ChangesCharged
<1>3. BodiesAreCurrent' /\ CacheHonest'
  BY DEF IInv, BodiesAreCurrent, CacheHonest
<1>4. FlightHonest'
  BY DEF IInv, FlightHonest, Blank
<1> QED
  BY <1>1, <1>2, <1>3, <1>4 DEF IInv

\* So does a blank.
LEMMA DeactivateIInv ==
    ASSUME IInv, NEW b \in Slots, Deactivate(b)
    PROVE  IInv'
<1> USE DEF Deactivate, callVars
<1>1. TypeOK'
  <2>1. dock' \in [Slots -> [Strips -> Contents \cup {Unknown, Black}]]
    BY DEF IInv, TypeOK, Filled
  <2> QED
    BY <2>1 DEF IInv, TypeOK
<1>2. LedgerHonest' /\ ChangesCharged'
  BY DEF LedgerHonest, ChangesCharged
<1>3. BodiesAreCurrent' /\ CacheHonest'
  BY DEF IInv, BodiesAreCurrent, CacheHonest
<1>4. FlightHonest'
  BY DEF IInv, FlightHonest, Blank
<1> QED
  BY <1>1, <1>2, <1>3, <1>4 DEF IInv

\* A new session's ledger is the first state's.
LEMMA ReengageIInv ==
    ASSUME IInv, Reengage
    PROVE  IInv'
<1> USE DEF Reengage, callVars
<1>1. TypeOK'
  <2>1. frame_seq' \in 0 .. SeqMod - 1 /\ debt' \in [Strips -> 0 .. DamageFrames]
    BY DeliveryAssumption DEF NoDebt
  <2>2. dock' \in [Slots -> [Strips -> Contents \cup {Unknown, Black}]]
    BY DEF Filled
  <2> QED
    BY <2>1, <2>2 DEF IInv, TypeOK, Blank, Hashes
<1>2. LedgerHonest' /\ ChangesCharged'
  BY DEF LedgerHonest, ChangesCharged
<1>3. BodiesAreCurrent' /\ CacheHonest'
  BY DEF IInv, FlightHonest, BodiesAreCurrent, CacheHonest, Blank
<1>4. FlightHonest'
  BY DEF IInv, FlightHonest, Blank
<1> QED
  BY <1>1, <1>2, <1>3, <1>4 DEF IInv

-----------------------------------------------------------------------------
\* plan() and encode(): what is charged, what is carried, what is cached.
LEMMA PlanIInv ==
    ASSUME IInv, NEW frame \in Surface, NEW w \in Sizes, Plan(frame, w)
    PROVE  IInv'
<1> DEFINE led     == SizedLedger(w)
           charged == IF led.keyframe_owed THEN led.debt ELSE Charge(led, frame)
           whole   == led.keyframe_owed \/ Scattered(Owed(charged))
           chosen  == IF whole THEN Strips ELSE MacroClosure(Owed(charged))
<1>1. /\ active /\ plan = "None"
      /\ ledgerSize' = w
      /\ hashes' = led.hashes
      /\ debt' = charged
      /\ keyframe_owed' = led.keyframe_owed
      /\ pending' = frame
      /\ plan' = IF whole THEN "Keyframe" ELSE IF chosen = {} THEN "None" ELSE "Damage"
      /\ records' = [s \in Strips |-> IF s \in chosen THEN Encode(led, frame, s) ELSE NoHash]
      /\ bodies' = [s \in Strips |-> IF s \in chosen THEN Encode(led, frame, s) ELSE led.bodies[s]]
      /\ body_hashes' = [s \in Strips |-> IF s \in chosen THEN frame[s] ELSE led.body_hashes[s]]
      /\ last_surface' = frame /\ last_size' = w
      /\ UNCHANGED <<surface, size, active, repeat, frame_seq, dock>>
  BY Zenon DEF Plan
<1>2. /\ led.hashes \in Hashes
      /\ led.debt \in [Strips -> 0 .. DamageFrames]
      /\ led.keyframe_owed \in BOOLEAN
      /\ led.bodies \in Hashes
      /\ led.body_hashes \in Hashes
      /\ \A s \in Strips : led.bodies[s] # NoHash => led.bodies[s] = led.body_hashes[s]
  <2>1. CASE ledgerSize = w
    BY <2>1 DEF SizedLedger, IInv, TypeOK, CacheHonest
  <2>2. CASE ledgerSize # w
    <3>1. NoDebt \in [Strips -> 0 .. DamageFrames]
      BY DeliveryAssumption DEF NoDebt
    <3> QED
      BY <2>2, <3>1 DEF SizedLedger, Blank, Hashes
  <2> QED
    BY <2>1, <2>2
<1>3. \/ led.keyframe_owed
      \/ led.hashes = hashes /\ led.debt = debt /\ ~keyframe_owed
  BY DEF SizedLedger
<1> HIDE DEF led
<1>4. /\ charged \in [Strips -> 0 .. DamageFrames]
      /\ ~led.keyframe_owed =>
           \A s \in Strips : /\ led.hashes[s] # frame[s] => charged[s] = DamageFrames
                             /\ charged[s] >= led.debt[s]
  BY <1>2, DeliveryAssumption DEF Charge
<1> HIDE DEF charged
<1>5. Owed(charged) \subseteq Strips
  BY DEF Owed
<1>6. /\ chosen \subseteq Strips
      /\ Owed(charged) \subseteq chosen
  BY <1>5, ClosureCovers
<1> HIDE DEF chosen
<1>7. \A s \in Strips : Encode(led, frame, s) = frame[s]
  BY <1>2 DEF Encode
<1>8. records' = [s \in Strips |-> IF s \in chosen THEN frame[s] ELSE NoHash]
  BY <1>1, <1>7
<1>9. bodies' = [s \in Strips |-> IF s \in chosen THEN frame[s] ELSE led.bodies[s]]
  BY <1>1, <1>7
<1>10. repeat = 0 /\ repeat' = 0
  BY <1>1 DEF IInv, FlightHonest
<1>11. TypeOK'
  <2>1. plan' \in {"None", "Keyframe", "Damage"}
    BY <1>1
  <2>2. records' \in Hashes /\ bodies' \in Hashes /\ body_hashes' \in Hashes /\ pending' \in Hashes
    BY <1>1, <1>2, <1>8, <1>9 DEF Surface, Hashes
  <2> QED
    BY <1>1, <1>2, <1>4, <2>1, <2>2 DEF IInv, TypeOK
<1>12. LedgerHonest'
  <2> SUFFICES ASSUME ~keyframe_owed', NEW s \in Strips, NEW k \in Slots, k >= debt'[s]
               PROVE  dock[RingPhase(frame_seq + k)][s] = hashes'[s]
    BY <1>1 DEF LedgerHonest, RingPhase
  <2>1. ~led.keyframe_owed /\ hashes' = hashes /\ led.debt = debt /\ ~keyframe_owed
    BY <1>1, <1>3
  <2>2. k >= debt[s]
    <3>1. charged[s] >= debt[s] /\ k >= charged[s]
      BY <1>1, <1>4, <2>1
    <3>2. debt[s] \in Nat /\ charged[s] \in Nat /\ k \in Nat
      BY <1>2, <1>4, <2>1 DEF Slots
    <3> QED
      BY <3>1, <3>2
  <2> QED
    BY <2>1, <2>2 DEF IInv, LedgerHonest
<1>13. BodiesAreCurrent'
  BY <1>1, <1>8 DEF BodiesAreCurrent
<1>14. CacheHonest'
  BY <1>1, <1>2, <1>9 DEF CacheHonest
<1>15. ChangesCharged'
  BY <1>1, <1>4 DEF ChangesCharged
<1>16. FlightHonest'
  <2>1. plan' = "None" => records' = Blank
    BY <1>1, <1>8 DEF Blank
  <2>2. plan' # "None" => pending' = last_surface' /\ repeat' <= Presentations'
    BY <1>1, <1>10, DeliveryAssumption DEF Presentations
  <2>3. plan' = "Keyframe" => records' = last_surface'
    <3> SUFFICES ASSUME plan' = "Keyframe" PROVE records' = frame
      BY <1>1
    <3>1. chosen = Strips
      BY <1>1 DEF chosen
    <3> QED
      BY <1>8, <3>1 DEF Surface
  <2>4. plan' = "Damage" => ~keyframe_owed'
    BY <1>1
  <2>5. \A s \in Strips : debt'[s] > 0 => records'[s] = last_surface'[s]
    BY <1>1, <1>6, <1>8 DEF Owed
  <2>6. \A j \in Nat : ~(j < repeat')
    BY <1>10
  <2> QED
    BY <1>10, <2>1, <2>2, <2>3, <2>4, <2>5, <2>6 DEF FlightHonest
<1> QED
  BY <1>11, <1>12, <1>13, <1>14, <1>15, <1>16 DEF IInv

-----------------------------------------------------------------------------
\* One more presentation in its slot, the rest of the ring as it was.
Landed ==
    dock' = [dock EXCEPT ![RingPhase(frame_seq + repeat)] =
                [s \in Strips |-> IF records[s] # NoHash THEN records[s] ELSE @[s]]]

\* A presentation writes each strip it carries as the last surface has it, and
\* leaves every other strip and slot alone.
LEMMA LandedSlots ==
    ASSUME IInv, plan # "None", Landed
    PROVE  /\ dock' \in [Slots -> [Strips -> Contents \cup {Unknown, Black}]]
           /\ \A b \in Slots, s \in Strips :
                 /\ \/ dock'[b][s] = dock[b][s]
                    \/ records[s] # NoHash /\ dock'[b][s] = records[s]
                 /\ b = RingPhase(frame_seq + repeat) /\ records[s] # NoHash =>
                       dock'[b][s] = records[s]
<1> DEFINE here == RingPhase(frame_seq + repeat)
<1>1. frame_seq + repeat \in Int
  BY DeliveryAssumption DEF IInv, TypeOK
<1>2. here \in Slots
  BY <1>1, PhaseIsSlot
<1> HIDE DEF here
<1>3. dock' = [dock EXCEPT ![here] =
                  [s \in Strips |-> IF records[s] # NoHash THEN records[s] ELSE dock[here][s]]]
  BY DEF Landed, here
<1>4. /\ dock \in [Slots -> [Strips -> Contents \cup {Unknown, Black}]]
      /\ records \in [Strips -> Contents \cup {NoHash}]
  BY DEF IInv, TypeOK, Hashes
<1>5. [s \in Strips |-> IF records[s] # NoHash THEN records[s] ELSE dock[here][s]]
         \in [Strips -> Contents \cup {Unknown, Black}]
  BY <1>2, <1>4
<1>6. dock' \in [Slots -> [Strips -> Contents \cup {Unknown, Black}]]
  BY <1>3, <1>4, <1>5
<1> QED
  BY <1>2, <1>3, <1>4, <1>6 DEF here

\* What a landed presentation does to the ledger's claim: nothing, for a strip
\* that moved is charged beyond the ring and any other is sent as published.
LEMMA LandedLedger ==
    ASSUME IInv, DeliveryCoversRing, plan # "None", Landed,
           UNCHANGED <<keyframe_owed, debt, hashes, frame_seq>>
    PROVE  LedgerHonest'
<1> SUFFICES ASSUME ~keyframe_owed, NEW s \in Strips, NEW k \in Slots, k >= debt[s]
             PROVE  dock'[RingPhase(frame_seq + k)][s] = hashes[s]
  BY DEF LedgerHonest, RingPhase
<1>1. dock[RingPhase(frame_seq + k)][s] = hashes[s]
  BY DEF IInv, LedgerHonest
<1>2. hashes[s] = last_surface[s]
  <2>1. k < RingSlots /\ k \in Int /\ RingSlots \in Int
    BY DeliveryAssumption DEF Slots
  <2>2. DamageFrames \in Int /\ DamageFrames >= RingSlots
    BY DeliveryAssumption DEF DeliveryCoversRing
  <2>3. debt[s] # DamageFrames
    BY <2>1, <2>2
  <2> QED
    BY <2>3 DEF IInv, ChangesCharged
<1>3. records[s] # NoHash => records[s] = last_surface[s]
  BY DEF IInv, BodiesAreCurrent
<1>4. frame_seq + k \in Int
  BY DeliveryAssumption DEF IInv, TypeOK, Slots
<1>5. RingPhase(frame_seq + k) \in Slots
  BY <1>4, PhaseIsSlot
<1> QED
  BY <1>1, <1>2, <1>3, <1>5, LandedSlots

\* A presentation submitted.
LEMMA SubmitIInv ==
    ASSUME IInv, DeliveryCoversRing, Submit
    PROVE  IInv'
<1>1. /\ plan # "None" /\ repeat < Presentations
      /\ Landed
      /\ repeat' = repeat + 1
      /\ UNCHANGED <<surface, size, outputVars, ledgerVars, plan, records, frame_seq>>
  BY DEF Submit, Landed
<1> USE DEF outputVars, ledgerVars
<1>2. repeat \in Nat /\ Presentations \in Nat /\ Presentations' = Presentations
  BY <1>1, DeliveryAssumption DEF IInv, TypeOK, Presentations
<1>3. TypeOK'
  <2>1. repeat' \in 0 .. KeyframePresentations + DeltaPresentations
    BY <1>1, <1>2, DeliveryAssumption DEF Presentations
  <2> QED
    BY <1>1, <2>1, LandedSlots DEF IInv, TypeOK
<1>4. LedgerHonest'
  BY <1>1, LandedLedger
<1>5. BodiesAreCurrent' /\ CacheHonest' /\ ChangesCharged'
  BY <1>1 DEF IInv, BodiesAreCurrent, CacheHonest, ChangesCharged
<1>6. FlightHonest'
  <2>1. ASSUME NEW s \in Strips, NEW j \in Nat, j < repeat', records[s] # NoHash
        PROVE  dock'[RingPhase(frame_seq + j)][s] = records[s]
    <3>1. frame_seq + j \in Int
      BY DeliveryAssumption DEF IInv, TypeOK
    <3>2. RingPhase(frame_seq + j) \in Slots
      BY <3>1, PhaseIsSlot
    <3>3. CASE j = repeat
      BY <1>1, <2>1, <3>2, <3>3, LandedSlots
    <3>4. CASE j < repeat
      <4>1. dock[RingPhase(frame_seq + j)][s] = records[s]
        BY <2>1, <3>4 DEF IInv, FlightHonest
      <4> QED
        BY <1>1, <4>1, <3>2, LandedSlots
    <3> QED
      BY <1>1, <1>2, <2>1, <3>3, <3>4
  <2>2. \A s \in Strips, j \in Nat :
           j < repeat' /\ records'[s] # NoHash =>
               dock'[RingPhase(frame_seq' + j)][s] = records'[s]
    BY <1>1, <2>1
  <2>3. repeat' <= Presentations'
    BY <1>1, <1>2
  <2> QED
    BY <1>1, <2>2, <2>3 DEF IInv, FlightHonest, RingPhase
<1> QED
  BY <1>3, <1>4, <1>5, <1>6 DEF IInv

\* A presentation that failed, landed or not.
LEMMA SubmitFailsIInv ==
    ASSUME IInv, DeliveryCoversRing, SubmitFails
    PROVE  IInv'
<1>1. /\ plan # "None"
      /\ UNCHANGED dock \/ Landed
      /\ plan' = "None" /\ records' = Blank /\ repeat' = 0
      /\ UNCHANGED <<surface, size, outputVars, ledgerVars, frame_seq>>
  BY DEF SubmitFails, Landed
<1> USE DEF outputVars, ledgerVars
<1>2. TypeOK'
  <2>1. dock' \in [Slots -> [Strips -> Contents \cup {Unknown, Black}]]
    BY <1>1, LandedSlots DEF IInv, TypeOK
  <2>2. repeat' \in 0 .. KeyframePresentations + DeltaPresentations /\ records' \in Hashes
    BY <1>1, DeliveryAssumption DEF Blank, Hashes
  <2> QED
    BY <1>1, <2>1, <2>2 DEF IInv, TypeOK
<1>3. LedgerHonest'
  <2>1. CASE UNCHANGED dock
    BY <1>1, <2>1 DEF IInv, LedgerHonest, RingPhase
  <2>2. CASE Landed
    BY <1>1, <2>2, LandedLedger
  <2> QED
    BY <1>1, <2>1, <2>2
<1>4. CacheHonest' /\ ChangesCharged'
  BY <1>1 DEF IInv, CacheHonest, ChangesCharged
<1>5. BodiesAreCurrent'
  BY <1>1 DEF BodiesAreCurrent, Blank
<1>6. FlightHonest'
  BY <1>1 DEF FlightHonest, Blank
<1> QED
  BY <1>2, <1>3, <1>4, <1>5, <1>6 DEF IInv

-----------------------------------------------------------------------------
\* A keyframe's presentations walk the whole ring, so every slot has it.
LEMMA KeyframeFillsRing ==
    ASSUME IInv, DeliveryCoversRing, plan = "Keyframe", repeat = Presentations,
           NEW b \in Slots, NEW s \in Strips
    PROVE  dock[b][s] = pending[s]
<1>1. frame_seq \in Int
  BY DeliveryAssumption DEF IInv, TypeOK
<1>2. PICK j \in Slots : RingPhase(frame_seq + j) = b
  BY <1>1, PhasesCoverRing
<1>3. j \in Nat /\ j < repeat
  BY DeliveryAssumption DEF Slots, Presentations, DeliveryCoversRing
<1>4. records = last_surface /\ pending = last_surface
  BY DEF IInv, FlightHonest
<1>5. records[s] # NoHash
  BY <1>4, ContentAssumption DEF IInv, TypeOK, Surface
<1> QED
  BY <1>2, <1>3, <1>4, <1>5 DEF IInv, FlightHonest

\* A delta pays one of a strip's transmissions: the slots beyond what it still
\* owes are the ones just written, or were already right.
LEMMA DeltaPaysOne ==
    ASSUME IInv, DeliveryCoversRing, plan = "Damage", repeat = Presentations,
           NEW s \in Strips, NEW k \in Slots,
           debt[s] > 0 => k >= debt[s] - 1
    PROVE  dock[RingPhase(frame_seq + Presentations + k)][s] = pending[s]
<1> DEFINE P == Presentations
           j == P + k
<1>1. /\ P \in Nat /\ P >= 1 /\ repeat = P
      /\ k \in Nat /\ k < RingSlots /\ RingSlots \in Nat
      /\ frame_seq \in Nat
      /\ debt[s] \in Nat
      /\ DamageFrames \in Nat /\ DamageFrames >= RingSlots
  BY DeliveryAssumption DEF IInv, TypeOK, Presentations, Slots, DeliveryCoversRing
<1>2. /\ ~keyframe_owed
      /\ pending = last_surface
      /\ debt[s] > 0 => records[s] = last_surface[s]
      /\ hashes[s] # last_surface[s] => debt[s] = DamageFrames
  BY DEF IInv, FlightHonest, ChangesCharged
<1>3. last_surface[s] # NoHash
  BY ContentAssumption DEF IInv, TypeOK, Surface
<1>4. frame_seq + P + k = frame_seq + j
  BY <1>1
<1> HIDE DEF P
<1>5. CASE debt[s] = 0
  <2>1. hashes[s] = last_surface[s]
    BY <1>1, <1>2, <1>5, DeliveryAssumption
  <2>2. frame_seq + j \in Int /\ frame_seq \in Int
    BY <1>1
  <2>3. RingPhase(frame_seq + j) \in Slots
    BY <2>2, PhaseIsSlot
  <2>4. PICK i \in Slots : RingPhase(frame_seq + i) = RingPhase(frame_seq + j)
    BY <2>2, <2>3, PhasesCoverRing
  <2>5. dock[RingPhase(frame_seq + i)][s] = hashes[s]
    BY <1>1, <1>2, <1>5 DEF IInv, LedgerHonest, Slots
  <2> QED
    BY <1>2, <1>4, <2>1, <2>4, <2>5 DEF P
<1>6. CASE debt[s] > 0 /\ j < RingSlots
  <2>1. j \in Slots /\ j >= debt[s]
    BY <1>1, <1>6 DEF Slots
  <2>2. dock[RingPhase(frame_seq + j)][s] = hashes[s]
    BY <1>2, <2>1 DEF IInv, LedgerHonest
  <2>3. debt[s] # DamageFrames
    BY <1>1, <1>6, <2>1
  <2> QED
    BY <1>2, <1>4, <2>2, <2>3 DEF P
<1>7. CASE debt[s] > 0 /\ j >= RingSlots
  <2> DEFINE i == j - RingSlots
  <2>1. i \in Nat /\ i < repeat /\ frame_seq + i \in Int /\ frame_seq + j = (frame_seq + i) + RingSlots
    BY <1>1, <1>7
  <2> HIDE DEF i
  <2>2. RingPhase(frame_seq + j) = RingPhase(frame_seq + i)
    BY <2>1, PhaseTurn
  <2>3. dock[RingPhase(frame_seq + i)][s] = records[s]
    BY <1>2, <1>3, <1>7, <2>1 DEF IInv, FlightHonest
  <2> QED
    BY <1>2, <1>4, <1>7, <2>2, <2>3 DEF P
<1> QED
  BY <1>1, <1>5, <1>6, <1>7

\* presented(): the counter moves on, the debt is paid, the hashes published.
LEMMA PresentedIInv ==
    ASSUME IInv, DeliveryCoversRing, Presented
    PROVE  IInv'
<1> USE DEF Presented, Paid, SeqAfter, outputVars
<1>1. /\ Presentations \in Nat
      /\ frame_seq \in Nat
      /\ frame_seq + Presentations \in Int
  BY DeliveryAssumption DEF IInv, TypeOK, Presentations
<1>2. pending = last_surface
  BY DEF IInv, FlightHonest
<1>3. TypeOK'
  <2>1. frame_seq' \in 0 .. SeqMod - 1
    BY <1>1, RingConstants, RemainderRange, Zenon
  <2>2. debt' \in [Strips -> 0 .. DamageFrames]
    BY DeliveryAssumption DEF IInv, TypeOK
  <2>3. repeat' \in 0 .. KeyframePresentations + DeltaPresentations
    BY DeliveryAssumption
  <2>4. keyframe_owed' \in BOOLEAN
    BY Zenon DEF IInv, TypeOK
  <2> QED
    BY <2>1, <2>2, <2>3, <2>4 DEF IInv, TypeOK, Hashes, Blank
<1>4. LedgerHonest'
  <2> SUFFICES ASSUME ~keyframe_owed', NEW s \in Strips, NEW k \in Slots, k >= debt'[s]
               PROVE  dock[RingPhase(((frame_seq + Presentations) % SeqMod) + k)][s] = pending[s]
    BY DEF LedgerHonest, RingPhase
  <2>1. k \in Int
    BY DEF Slots
  <2>2. RingPhase(((frame_seq + Presentations) % SeqMod) + k)
           = RingPhase(frame_seq + Presentations + k)
    BY <1>1, <2>1, PhaseWrap, Zenon
  <2>3. CASE plan = "Keyframe"
    <3>1. frame_seq + Presentations + k \in Int
      BY <1>1, <2>1
    <3>2. RingPhase(frame_seq + Presentations + k) \in Slots
      BY <3>1, PhaseIsSlot
    <3> QED
      BY <2>2, <2>3, <3>2, KeyframeFillsRing
  <2>4. CASE plan = "Damage"
    <3>1. debt[s] > 0 => k >= debt[s] - 1
      BY <2>4, DeliveryAssumption DEF IInv, TypeOK
    <3> QED
      BY <2>2, <2>4, <3>1, DeltaPaysOne
  <2> QED
    BY <2>3, <2>4 DEF IInv, TypeOK
<1>5. BodiesAreCurrent' /\ CacheHonest'
  BY DEF IInv, BodiesAreCurrent, CacheHonest, Blank
<1>6. ChangesCharged'
  BY <1>2 DEF ChangesCharged
<1>7. FlightHonest'
  BY DEF FlightHonest, Blank
<1> QED
  BY <1>3, <1>4, <1>5, <1>6, <1>7 DEF IInv

-----------------------------------------------------------------------------
\* Every step keeps the invariant.
LEMMA NextIInv == IInv /\ DeliveryCoversRing /\ [Next]_vars => IInv'
<1> SUFFICES ASSUME IInv, DeliveryCoversRing, [Next]_vars PROVE IInv'
  OBVIOUS
<1>1. CASE \E s \in Strips, c \in Contents : Draw(s, c)
  BY <1>1, DrawIInv
<1>2. CASE \E w \in Sizes, n \in CarrierCounts : ProgramMode(w, n)
  BY <1>2, ProgramModeIInv
<1>3. CASE \E b \in Slots : Deactivate(b)
  BY <1>3, DeactivateIInv
<1>4. CASE Reengage
  BY <1>4, ReengageIInv
<1>5. CASE PresentGrabbed
  <2>1. surface \in Surface /\ size \in Sizes
    BY DEF IInv, TypeOK
  <2> QED
    BY <1>5, <2>1, PlanIInv DEF PresentGrabbed
<1>6. CASE PresentLast
  <2>1. last_surface \in Surface /\ last_size \in Sizes
    BY <1>6 DEF IInv, TypeOK, PresentLast
  <2> QED
    BY <1>6, <2>1, PlanIInv DEF PresentLast
<1>7. CASE Submit
  BY <1>7, SubmitIInv
<1>8. CASE Presented
  BY <1>8, PresentedIInv
<1>9. CASE SubmitFails
  BY <1>9, SubmitFailsIInv
<1>10. CASE UNCHANGED vars
  <2> USE <1>10 DEF vars, outputVars, ledgerVars, callVars
  <2>1. TypeOK'
    BY DEF IInv, TypeOK
  <2>2. LedgerHonest' /\ BodiesAreCurrent' /\ CacheHonest' /\ ChangesCharged'
    BY DEF IInv, LedgerHonest, BodiesAreCurrent, CacheHonest, ChangesCharged, RingPhase
  <2>3. FlightHonest'
    BY DEF IInv, FlightHonest, Presentations, RingPhase, Blank
  <2> QED
    BY <2>1, <2>2, <2>3 DEF IInv
<1> QED
  BY <1>1, <1>2, <1>3, <1>4, <1>5, <1>6, <1>7, <1>8, <1>9, <1>10 DEF Next, Daemon

\* Nothing owed means every slot shows the last surface.
LEMMA IInvSettles == IInv /\ DeliveryCoversRing => RingSettled
<1> SUFFICES ASSUME IInv, DeliveryCoversRing, ~OwesRetransmission, NEW b \in Slots
             PROVE  dock[b] = last_surface
  BY DEF RingSettled
<1>1. ~keyframe_owed /\ \A s \in Strips : debt[s] = 0
  BY DEF OwesRetransmission, Owed, IInv, TypeOK
<1>2. \A s \in Strips : hashes[s] = last_surface[s]
  BY <1>1, DeliveryAssumption DEF IInv, ChangesCharged
<1>3. frame_seq \in Int
  BY DeliveryAssumption DEF IInv, TypeOK
<1>4. PICK k \in Slots : RingPhase(frame_seq + k) = b
  BY <1>3, PhasesCoverRing
<1>5. k >= 0
  BY DEF Slots
<1>6. \A s \in Strips : dock[b][s] = last_surface[s]
  BY <1>1, <1>2, <1>4, <1>5 DEF IInv, LedgerHonest
<1> QED
  BY <1>6 DEF IInv, TypeOK, Surface

\* The invariant holds throughout, whenever the delivery covers the ring.
THEOREM LedgerInvariant == DeliveryCoversRing /\ Spec => []IInv
<1> SUFFICES ASSUME DeliveryCoversRing PROVE Spec => []IInv
  OBVIOUS
<1>1. IInv /\ [Next]_vars => IInv'
  BY NextIInv
<1> QED
  BY <1>1, InitIInv, PTL DEF Spec

\* present_rgb() with owes_retransmission() is right for every dock whose
\* keyframes and debts are as long as its ring: when it stops, all slots agree
\* with the last surface, through failures, blanks, mode sets and new sessions.
THEOREM RingAlwaysSettles == DeliveryCoversRing /\ Spec => []RingSettled
<1> SUFFICES ASSUME DeliveryCoversRing PROVE Spec => []RingSettled
  OBVIOUS
<1>1. Spec => []IInv
  BY LedgerInvariant
<1>2. IInv => RingSettled
  BY IInvSettles
<1> QED
  BY <1>1, <1>2, PTL

\* Nothing presented()'s ledger says is paid for is ever missing from a slot,
\* a frame half submitted and one that failed included.
THEOREM LedgerAlwaysHonest == DeliveryCoversRing /\ Spec => []LedgerHonest
<1>1. IInv => LedgerHonest
  BY DEF IInv
<1> QED
  BY <1>1, LedgerInvariant, PTL

\* encode() never serves a body that is not the strip's current content.
THEOREM BodiesAlwaysCurrent == DeliveryCoversRing /\ Spec => []BodiesAreCurrent
<1>1. IInv => BodiesAreCurrent
  BY DEF IInv
<1> QED
  BY <1>1, LedgerInvariant, PTL

(***************************************************************************)
(* The scan of owed_rects: at every position the rectangles are the stacks *)
(* of the runs behind it.                                                  *)
(***************************************************************************)

\* Band z has the run [a, b), and the scan is past it when it is at <<x, y>>.
Passed(d, x, y, z, a, b) == IsRun(d, z, a, b) /\ (z < y \/ (z = y /\ b <= x))

\* A stack of the runs the scan is past, as far up and down as it goes.
IsStack(d, x, y, r) ==
    /\ r.y0 < r.y1
    /\ \A z \in r.y0 .. r.y1 - 1 : Passed(d, x, y, z, r.x0, r.x1)
    /\ ~IsRun(d, r.y0 - 1, r.x0, r.x1)
    /\ ~Passed(d, x, y, r.y1, r.x0, r.x1)

Stacks(d, x, y) == {r \in Rects : IsStack(d, x, y, r)}

\* The position is at the first strip of a run, or at none.
Position ==
    /\ owed \in SUBSET Strips
    /\ tx \in 0 .. TilesX /\ ty \in 0 .. TilesY
    /\ result \in {"scanning", "rects", "none"}
    /\ <<tx, ty>> \in owed => <<tx - 1, ty>> \notin owed
    /\ ty = TilesY => tx = 0
    /\ result = "rects" => ty = TilesY

\* The scan gives up over a run for which there is no room.
GaveUp ==
    result = "none" =>
        /\ ty < TilesY /\ tx < TilesX /\ <<tx, ty>> \in owed
        /\ Priors(RunEnd) = {} /\ Full

ScanInv == Position /\ rects = Stacks(owed, tx, ty) /\ Cardinality(rects) <= MAX_RECTS /\ GaveUp

\* A set of naturals has a least element.
LEMMA LeastNatural ==
    ASSUME NEW S \in SUBSET Nat, S # {}
    PROVE  \E n \in S : \A k \in S : n <= k
<1> DEFINE Less == {p \in Nat \X Nat : p[1] < p[2]}
<1>1. PICK n \in S : \A k \in S : <<k, n>> \notin Less
  BY NatLessThanWellFounded, WFMin DEF OpToRel
<1>2. ASSUME NEW k \in S, k < n PROVE FALSE
  <2>1. <<k, n>> \in Nat \X Nat /\ <<k, n>>[1] = k /\ <<k, n>>[2] = n
    OBVIOUS
  <2> QED
    BY <1>1, <1>2, <2>1
<1> QED
  BY <1>1, <1>2

\* A stretch of a bounded set goes on to a first place outside it ...
LEMMA StretchEnds ==
    ASSUME NEW n \in Nat, NEW R \in SUBSET (0 .. n - 1), NEW x \in R
    PROVE  \E e \in x + 1 .. n : x .. e - 1 \subseteq R /\ e \notin R
<1> DEFINE Out == {e \in x + 1 .. n : e \notin R}
<1>1. n \in Out /\ Out \in SUBSET Nat
  OBVIOUS
<1>2. PICK e \in Out : \A k \in Out : e <= k
  BY <1>1, LeastNatural
<1>3. ASSUME NEW z \in x .. e - 1 PROVE z \in R
  <2>1. CASE z = x
    BY <2>1
  <2>2. CASE z # x
    <3>1. z \in x + 1 .. n /\ z < e
      BY <2>2, <1>2
    <3> QED
      BY <3>1, <1>2
  <2> QED
    BY <2>1, <2>2
<1> QED
  BY <1>2, <1>3

\* ... and begins behind the last one before it.
LEMMA StretchBegins ==
    ASSUME NEW n \in Nat, NEW R \in SUBSET (0 .. n - 1), NEW x \in R
    PROVE  \E s \in 0 .. x : s .. x \subseteq R /\ s - 1 \notin R
<1> DEFINE In == {s \in 0 .. x : s .. x \subseteq R}
<1>1. x \in In /\ In \in SUBSET Nat
  OBVIOUS
<1>2. PICK s \in In : \A k \in In : s <= k
  BY <1>1, LeastNatural
<1>3. ASSUME s - 1 \in R PROVE FALSE
  <2>1. s - 1 \in 0 .. x /\ s \in 0 .. x
    BY <1>2, <1>3
  <2>2. ASSUME NEW z \in s - 1 .. x PROVE z \in R
    BY <2>1, <1>2, <1>3
  <2>3. s - 1 \in In
    BY <2>1, <2>2
  <2> QED
    BY <2>1, <2>3, <1>2
<1> QED
  BY <1>2, <1>3

\* A strip is in a run of its band.
LEMMA RunAround ==
    ASSUME NEW d \in SUBSET Strips, NEW x, NEW y, <<x, y>> \in d
    PROVE  \E a \in 0 .. x, b \in x + 1 .. TilesX : IsRun(d, y, a, b)
<1> DEFINE R == {z \in 0 .. TilesX - 1 : <<z, y>> \in d}
<1>1. x \in R /\ R \in SUBSET (0 .. TilesX - 1) /\ TilesX \in Nat
  BY GridAssumption DEF Strips
<1>2. \A z : <<z, y>> \in d <=> z \in R
  BY DEF Strips
<1> HIDE DEF R
<1>3. PICK b \in x + 1 .. TilesX : x .. b - 1 \subseteq R /\ b \notin R
  BY <1>1, StretchEnds
<1>4. PICK a \in 0 .. x : a .. x \subseteq R /\ a - 1 \notin R
  BY <1>1, StretchBegins
<1>5. x \in Int /\ a \in Int /\ b \in Int /\ a <= x /\ x < b
  BY <1>1, <1>3, <1>4
<1>6. ASSUME NEW z \in a .. b - 1 PROVE z \in R
  BY <1>3, <1>4, <1>5
<1>7. IsRun(d, y, a, b)
  BY <1>2, <1>3, <1>4, <1>5, <1>6 DEF IsRun
<1> QED
  BY <1>7

\* The end of the run that begins at a strip.
LEMMA RunFrom ==
    ASSUME NEW d \in SUBSET Strips, NEW x, NEW y, <<x, y>> \in d
    PROVE  \E b \in x + 1 .. TilesX :
              /\ \A z \in x .. b - 1 : <<z, y>> \in d
              /\ <<b, y>> \notin d
<1> DEFINE R == {z \in 0 .. TilesX - 1 : <<z, y>> \in d}
<1>1. x \in R /\ R \in SUBSET (0 .. TilesX - 1) /\ TilesX \in Nat
  BY GridAssumption DEF Strips
<1>2. \A z : <<z, y>> \in d <=> z \in R
  BY DEF Strips
<1> HIDE DEF R
<1>3. PICK b \in x + 1 .. TilesX : x .. b - 1 \subseteq R /\ b \notin R
  BY <1>1, StretchEnds
<1> QED
  BY <1>2, <1>3

\* The bands that have a given run.
Bands(d, a, b) == {y \in 0 .. TilesY - 1 : IsRun(d, y, a, b)}

LEMMA RunsAreInBands ==
    ASSUME NEW d \in SUBSET Strips, NEW a \in Int, NEW b \in Int, NEW y, IsRun(d, y, a, b)
    PROVE  /\ y \in Bands(d, a, b) /\ y \in 0 .. TilesY - 1
           /\ a \in 0 .. TilesX - 1 /\ b \in 1 .. TilesX /\ a < b
<1>1. <<a, y>> \in Strips /\ <<b - 1, y>> \in Strips /\ a < b
  BY DEF IsRun
<1>2. TilesX \in Nat /\ TilesY \in Nat
  BY GridAssumption
<1> QED
  BY <1>1, <1>2 DEF Bands, Strips

\* A run goes on in the bands above it up to a first ...
LEMMA StackTop ==
    ASSUME NEW d \in SUBSET Strips, NEW a \in Int, NEW b \in Int, NEW y, IsRun(d, y, a, b)
    PROVE  \E t \in 0 .. y : (\A z \in t .. y : IsRun(d, z, a, b)) /\ ~IsRun(d, t - 1, a, b)
<1> DEFINE R == Bands(d, a, b)
<1>1. y \in R /\ TilesY \in Nat
  BY RunsAreInBands, GridAssumption
<1>2. R \in SUBSET (0 .. TilesY - 1) /\ (\A z \in R : IsRun(d, z, a, b))
  BY DEF Bands
<1>3. \A z : IsRun(d, z, a, b) => z \in R
  BY RunsAreInBands
<1> HIDE DEF R
<1>4. PICK t \in 0 .. y : t .. y \subseteq R /\ t - 1 \notin R
  BY <1>1, <1>2, StretchBegins
<1> QED
  BY <1>2, <1>3, <1>4

\* ... and below it down to a last.
LEMMA StackBottom ==
    ASSUME NEW d \in SUBSET Strips, NEW a \in Int, NEW b \in Int, NEW y, IsRun(d, y, a, b)
    PROVE  \E t \in y + 1 .. TilesY : (\A z \in y .. t - 1 : IsRun(d, z, a, b)) /\ ~IsRun(d, t, a, b)
<1> DEFINE R == Bands(d, a, b)
<1>1. y \in R /\ TilesY \in Nat
  BY RunsAreInBands, GridAssumption
<1>2. R \in SUBSET (0 .. TilesY - 1) /\ (\A z \in R : IsRun(d, z, a, b))
  BY DEF Bands
<1>3. \A z : IsRun(d, z, a, b) => z \in R
  BY RunsAreInBands
<1> HIDE DEF R
<1>4. PICK t \in y + 1 .. TilesY : y .. t - 1 \subseteq R /\ t \notin R
  BY <1>1, <1>2, StretchEnds
<1> QED
  BY <1>2, <1>3, <1>4

\* The sides of a rectangle are numbers.
LEMMA RectSides ==
    ASSUME NEW r \in Rects
    PROVE  /\ r.x0 \in Int /\ r.x1 \in Int /\ r.y0 \in Int /\ r.y1 \in Int
           /\ r.x0 >= 0 /\ r.x1 >= 0 /\ r.y0 >= 0 /\ r.y1 >= 0
           /\ r.x0 <= TilesX /\ r.x1 <= TilesX /\ r.y0 <= TilesY /\ r.y1 <= TilesY
BY GridAssumption DEF Rects

\* The stacks are settled by the runs that are passed.
LEMMA SamePassed ==
    ASSUME NEW d, NEW x, NEW y, NEW u, NEW v,
           \A z, a, b \in Int : Passed(d, x, y, z, a, b) <=> Passed(d, u, v, z, a, b)
    PROVE  Stacks(d, x, y) = Stacks(d, u, v)
<1>1. ASSUME NEW r \in Rects PROVE IsStack(d, x, y, r) <=> IsStack(d, u, v, r)
  <2>1. r.x0 \in Int /\ r.x1 \in Int /\ r.y1 \in Int /\ r.y0 .. r.y1 - 1 \subseteq Int
    BY RectSides
  <2> QED
    BY <2>1 DEF IsStack
<1> QED
  BY <1>1 DEF Stacks

\* Nothing is passed at the start.
LEMMA StacksAtFirst ==
    ASSUME NEW d \in SUBSET Strips
    PROVE  Stacks(d, 0, 0) = {}
<1> SUFFICES ASSUME NEW r \in Stacks(d, 0, 0) PROVE FALSE
  OBVIOUS
<1>1. r \in Rects /\ r.y0 < r.y1 /\ Passed(d, 0, 0, r.y0, r.x0, r.x1)
  BY RectSides DEF Stacks, IsStack
<1>2. r.x0 \in Int /\ r.x1 \in Int /\ r.y0 \in Int /\ IsRun(d, r.y0, r.x0, r.x1)
  BY <1>1, RectSides DEF Passed
<1>3. r.y0 >= 0 /\ r.x1 >= 1
  BY <1>2, RunsAreInBands
<1> QED
  BY <1>1, <1>2, <1>3 DEF Passed

\* A strip that owes nothing ends no run (the scan's tx += 1).
LEMMA StacksOverAGap ==
    ASSUME NEW d \in SUBSET Strips, NEW x \in Int, NEW y \in Int, <<x, y>> \notin d
    PROVE  Stacks(d, x + 1, y) = Stacks(d, x, y)
<1>1. ASSUME NEW a \in Int, NEW b \in Int, IsRun(d, y, a, b) PROVE b # x + 1
  <2>1. a < b /\ b - 1 \in a .. b - 1
    BY <1>1 DEF IsRun
  <2>2. <<b - 1, y>> \in d
    BY <1>1, <2>1 DEF IsRun
  <2> QED
    BY <2>2
<1>2. ASSUME NEW z \in Int, NEW a \in Int, NEW b \in Int
      PROVE  Passed(d, x + 1, y, z, a, b) <=> Passed(d, x, y, z, a, b)
  BY <1>1 DEF Passed
<1> QED
  BY <1>2, SamePassed

\* At the end of a band every run of it is passed, and none of the next.
LEMMA StacksOverABand ==
    ASSUME NEW d \in SUBSET Strips, NEW y \in Int
    PROVE  Stacks(d, 0, y + 1) = Stacks(d, TilesX, y)
<1>1. ASSUME NEW z \in Int, NEW a \in Int, NEW b \in Int
      PROVE  Passed(d, 0, y + 1, z, a, b) <=> Passed(d, TilesX, y, z, a, b)
  <2>1. CASE IsRun(d, z, a, b)
    <3>1. b \in 1 .. TilesX
      BY <2>1, RunsAreInBands
    <3> QED
      BY <2>1, <3>1 DEF Passed
  <2>2. CASE ~IsRun(d, z, a, b)
    BY <2>2 DEF Passed
  <2> QED
    BY <2>1, <2>2
<1>2. 0 \in Int /\ TilesX \in Int /\ y + 1 \in Int
  BY GridAssumption
<1> QED
  BY <1>1, <1>2, SamePassed

\* Below the last band the stacks are the maximal rectangles.
LEMMA StacksAtLast ==
    ASSUME NEW d \in SUBSET Strips
    PROVE  Stacks(d, 0, TilesY) = MaximalRects(d)
<1>1. ASSUME NEW z \in Int, NEW a \in Int, NEW b \in Int
      PROVE  Passed(d, 0, TilesY, z, a, b) <=> IsRun(d, z, a, b)
  BY RunsAreInBands, GridAssumption DEF Passed
<1>2. ASSUME NEW r \in Rects
      PROVE  r \in Stacks(d, 0, TilesY) <=> r \in MaximalRects(d)
  <2>1. r.x0 \in Int /\ r.x1 \in Int /\ r.y1 \in Int /\ r.y0 .. r.y1 - 1 \subseteq Int
    BY RectSides
  <2> QED
    BY <1>1, <2>1 DEF Stacks, IsStack, MaximalRects
<1> QED
  BY <1>2 DEF Stacks, MaximalRects

\* Past the end of the run at the position, that run is passed and no other.
LEMMA PassedByARun ==
    ASSUME NEW d \in SUBSET Strips, NEW x \in Int, NEW y \in Int, NEW e \in Int, IsRun(d, y, x, e),
           NEW z \in Int, NEW a \in Int, NEW b \in Int
    PROVE  Passed(d, e, y, z, a, b) <=>
             Passed(d, x, y, z, a, b) \/ (z = y /\ a = x /\ b = e)
<1>1. x < e /\ <<x - 1, y>> \notin d /\ <<e, y>> \notin d /\ (\A k \in x .. e - 1 : <<k, y>> \in d)
  BY DEF IsRun
<1>2. ASSUME IsRun(d, y, a, b), x < b, b <= e PROVE a = x /\ b = e
  <2>1. a < b /\ <<a - 1, y>> \notin d /\ <<b, y>> \notin d /\ (\A k \in a .. b - 1 : <<k, y>> \in d)
    BY <1>2 DEF IsRun
  <2>2. b = e
    BY <1>1, <1>2, <2>1
  <2>3. ~(a > x)
    BY <1>1, <1>2, <2>1
  <2>4. ~(a < x)
    BY <1>1, <1>2, <2>1
  <2> QED
    BY <2>2, <2>3, <2>4
<1>3. CASE z # y
  BY <1>3 DEF Passed
<1>4. CASE z = y /\ ~IsRun(d, y, a, b)
  BY <1>4 DEF Passed
<1>5. CASE z = y /\ IsRun(d, y, a, b)
  <2>1. Passed(d, e, y, z, a, b) <=> b <= e
    BY <1>5 DEF Passed
  <2>2. Passed(d, x, y, z, a, b) <=> b <= x
    BY <1>5 DEF Passed
  <2> QED
    BY <1>1, <1>2, <1>5, <2>1, <2>2
<1> QED
  BY <1>3, <1>4, <1>5

\* Stacks of other runs, and those that end above the band, stay as they are.
LEMMA OtherStacksStay ==
    ASSUME NEW d \in SUBSET Strips, NEW x \in Int, NEW y \in Int, NEW e \in Int, IsRun(d, y, x, e),
           NEW r \in Rects, r.x0 # x \/ r.x1 # e \/ r.y1 < y
    PROVE  r \in Stacks(d, e, y) <=> r \in Stacks(d, x, y)
<1>1. r.x0 \in Int /\ r.x1 \in Int /\ r.y0 \in Int /\ r.y1 \in Int
  BY RectSides
<1>2. ASSUME NEW z \in Int, z <= r.y1
      PROVE  Passed(d, e, y, z, r.x0, r.x1) <=> Passed(d, x, y, z, r.x0, r.x1)
  BY <1>1, <1>2, PassedByARun
<1>3. \A z \in r.y0 .. r.y1 - 1 : z \in Int /\ z <= r.y1
  BY <1>1
<1> QED
  BY <1>1, <1>2, <1>3 DEF Stacks, IsStack

\* The stacks of the run at the position, before it is passed and after.
LEMMA StacksOfTheRun ==
    ASSUME NEW d \in SUBSET Strips, NEW x \in Int, NEW y \in Int, NEW e \in Int, IsRun(d, y, x, e),
           NEW r \in Rects, r.x0 = x, r.x1 = e, ~(r.y1 < y)
    PROVE  /\ r \in Stacks(d, x, y) <=>
                /\ r.y1 = y /\ r.y0 < y
                /\ \A z \in r.y0 .. y - 1 : IsRun(d, z, x, e)
                /\ ~IsRun(d, r.y0 - 1, x, e)
           /\ r \in Stacks(d, e, y) <=>
                /\ r.y1 = y + 1 /\ r.y0 <= y
                /\ \A z \in r.y0 .. y - 1 : IsRun(d, z, x, e)
                /\ ~IsRun(d, r.y0 - 1, x, e)
<1>1. r.y0 \in Int /\ r.y1 \in Int /\ r.y1 >= y /\ x < e
  BY RectSides DEF IsRun
<1>2. \A z \in Int : Passed(d, x, y, z, x, e) <=> IsRun(d, z, x, e) /\ z < y
  BY <1>1 DEF Passed
<1>3. \A z \in Int : Passed(d, e, y, z, x, e) <=> IsRun(d, z, x, e) /\ z <= y
  BY <1>1 DEF Passed
<1>4. r \in Stacks(d, x, y) <=>
        /\ r.y0 < r.y1 /\ \A z \in r.y0 .. r.y1 - 1 : Passed(d, x, y, z, x, e)
        /\ ~IsRun(d, r.y0 - 1, x, e) /\ ~Passed(d, x, y, r.y1, x, e)
  BY DEF Stacks, IsStack
<1>5. r \in Stacks(d, e, y) <=>
        /\ r.y0 < r.y1 /\ \A z \in r.y0 .. r.y1 - 1 : Passed(d, e, y, z, x, e)
        /\ ~IsRun(d, r.y0 - 1, x, e) /\ ~Passed(d, e, y, r.y1, x, e)
  BY DEF Stacks, IsStack
<1>6. ASSUME r.y0 < r.y1 PROVE r.y1 - 1 \in r.y0 .. r.y1 - 1 /\ r.y1 - 1 \in Int
  BY <1>1, <1>6
<1>7. r \in Stacks(d, x, y) => r.y1 = y
  BY <1>1, <1>2, <1>4, <1>6
<1>8. r \in Stacks(d, e, y) => r.y1 = y + 1
  <2>1. r.y1 - 1 <= y => ~(r.y1 <= y) \/ r.y1 = y
    BY <1>1
  <2>2. r \in Stacks(d, e, y) => r.y1 - 1 <= y
    BY <1>1, <1>3, <1>5, <1>6
  <2>3. r \in Stacks(d, e, y) => r.y1 # y
    BY <1>1, <1>3, <1>5
  <2> QED
    BY <1>1, <2>1, <2>2, <2>3
<1>9. r \in Stacks(d, x, y) <=>
        /\ r.y1 = y /\ r.y0 < y
        /\ \A z \in r.y0 .. y - 1 : IsRun(d, z, x, e)
        /\ ~IsRun(d, r.y0 - 1, x, e)
  BY <1>1, <1>2, <1>4, <1>7
<1>10. CASE r.y1 # y + 1
  BY <1>8, <1>9, <1>10
<1>11. CASE r.y1 = y + 1
  <2>1. ~Passed(d, e, y, r.y1, x, e)
    BY <1>1, <1>3, <1>11
  <2>2. r.y0 < r.y1 <=> r.y0 <= y
    BY <1>1, <1>11
  <2>3. (\A z \in r.y0 .. r.y1 - 1 : Passed(d, e, y, z, x, e)) <=> (\A z \in r.y0 .. y - 1 : IsRun(d, z, x, e))
    <3>1. \A z \in Int : z \in r.y0 .. r.y1 - 1 <=> z \in r.y0 .. y - 1 \/ (z = y /\ r.y0 <= y)
      BY <1>1, <1>11
    <3>2. \A z \in r.y0 .. y - 1 : z \in Int /\ z <= y
      BY <1>1
    <3> QED
      BY <1>1, <1>3, <3>1, <3>2
  <2> QED
    BY <1>5, <1>9, <1>11, <2>1, <2>2, <2>3
<1> QED
  BY <1>10, <1>11

\* A rectangle is its four sides.
LEMMA SameSides ==
    ASSUME NEW r \in Rects, NEW s \in Rects,
           r.x0 = s.x0, r.x1 = s.x1, r.y0 = s.y0, r.y1 = s.y1
    PROVE  r = s
BY DEF Rects

\* A stack begins in one place: two that cover the bands down to y agree.
LEMMA OneTop ==
    ASSUME NEW d, NEW x, NEW e, NEW y \in Int, NEW t \in Int, NEW u \in Int, t <= y, u <= y,
           \A z \in t .. y - 1 : IsRun(d, z, x, e), ~IsRun(d, t - 1, x, e),
           \A z \in u .. y - 1 : IsRun(d, z, x, e), ~IsRun(d, u - 1, x, e)
    PROVE  t = u
<1>1. ~(t < u)
  <2> SUFFICES ASSUME t < u PROVE FALSE
    OBVIOUS
  <2>1. u - 1 \in t .. y - 1
    OBVIOUS
  <2> QED
    BY <2>1
<1>2. ~(u < t)
  <2> SUFFICES ASSUME u < t PROVE FALSE
    OBVIOUS
  <2>1. t - 1 \in u .. y - 1
    OBVIOUS
  <2> QED
    BY <2>1
<1> QED
  BY <1>1, <1>2

\* The band repeats the span of a rectangle that ends above it: passing the
\* run grows that rectangle (owed_rects' prior.3 = ...).
LEMMA StacksGrow ==
    ASSUME NEW d \in SUBSET Strips, NEW x \in Int, NEW y \in Int, NEW e \in Int, IsRun(d, y, x, e),
           NEW p \in Stacks(d, x, y), p.x0 = x, p.x1 = e, p.y1 = y
    PROVE  Stacks(d, e, y) = (Stacks(d, x, y) \ {p}) \cup {[p EXCEPT !.y1 = y + 1]}
<1> DEFINE g == [p EXCEPT !.y1 = y + 1]
<1>1. p \in Rects
  BY DEF Stacks
<1>2. y + 1 \in 0 .. TilesY /\ y \in 0 .. TilesY
  BY RunsAreInBands, GridAssumption
<1>3. g \in Rects /\ g.x0 = x /\ g.x1 = e /\ g.y0 = p.y0 /\ g.y1 = y + 1
  BY <1>1, <1>2 DEF Rects
<1> HIDE DEF g
<1>4. /\ p.y0 \in Int /\ p.y0 < y /\ ~IsRun(d, p.y0 - 1, x, e)
      /\ \A z \in p.y0 .. y - 1 : IsRun(d, z, x, e)
  BY <1>1, RectSides, StacksOfTheRun
<1>5. ASSUME NEW r \in Rects
      PROVE  r \in Stacks(d, e, y) <=> (r \in Stacks(d, x, y) /\ r # p) \/ r = g
  <2>1. r.y0 \in Int /\ r.y1 \in Int
    BY RectSides
  <2>2. CASE r.x0 # x \/ r.x1 # e \/ r.y1 < y
    BY <2>1, <2>2, <1>3, OtherStacksStay
  <2>3. CASE r.x0 = x /\ r.x1 = e /\ ~(r.y1 < y)
    <3>1. r \in Stacks(d, x, y) => r = p
      <4> SUFFICES ASSUME r \in Stacks(d, x, y) PROVE r = p
        OBVIOUS
      <4>1. r.y1 = y /\ r.y0 < y /\ (\A z \in r.y0 .. y - 1 : IsRun(d, z, x, e)) /\ ~IsRun(d, r.y0 - 1, x, e)
        BY <2>3, StacksOfTheRun
      <4>2. r.y0 = p.y0
        BY <2>1, <4>1, <1>4, OneTop
      <4> QED
        BY <2>3, <4>1, <4>2, <1>1, SameSides
    <3>2. r = g => r \in Stacks(d, e, y)
      <4> SUFFICES ASSUME r = g PROVE r \in Stacks(d, e, y)
        OBVIOUS
      <4>1. r.y1 = y + 1 /\ r.y0 = p.y0 /\ r.y0 <= y
        BY <1>3, <1>4
      <4>2. (\A z \in r.y0 .. y - 1 : IsRun(d, z, x, e)) /\ ~IsRun(d, r.y0 - 1, x, e)
        BY <4>1, <1>4
      <4> QED
        BY <2>3, <4>1, <4>2, StacksOfTheRun
    <3>3. r \in Stacks(d, e, y) => r = g
      <4> SUFFICES ASSUME r \in Stacks(d, e, y) PROVE r = g
        OBVIOUS
      <4>1. r.y1 = y + 1 /\ r.y0 <= y /\ (\A z \in r.y0 .. y - 1 : IsRun(d, z, x, e)) /\ ~IsRun(d, r.y0 - 1, x, e)
        BY <2>3, StacksOfTheRun
      <4>2. r.y0 = p.y0
        <5>1. p.y0 <= y
          BY <1>4
        <5> QED
          BY <2>1, <4>1, <5>1, <1>4, OneTop
      <4> QED
        BY <2>3, <4>1, <4>2, <1>3, SameSides
    <3> QED
      BY <3>1, <3>2, <3>3
  <2> QED
    BY <2>2, <2>3
<1>6. Stacks(d, e, y) \subseteq Rects /\ Stacks(d, x, y) \subseteq Rects
  BY DEF Stacks
<1>7. Stacks(d, e, y) = (Stacks(d, x, y) \ {p}) \cup {g}
  BY <1>3, <1>5, <1>6
<1> QED
  BY <1>7 DEF g

\* It repeats the span of none: the run is not one of the band above.
LEMMA NoPriorNoRun ==
    ASSUME NEW d \in SUBSET Strips, NEW x \in Int, NEW y \in Int, NEW e \in Int, IsRun(d, y, x, e),
           ~\E r \in Stacks(d, x, y) : r.x0 = x /\ r.x1 = e /\ r.y1 = y
    PROVE  ~IsRun(d, y - 1, x, e)
<1> SUFFICES ASSUME IsRun(d, y - 1, x, e) PROVE FALSE
  OBVIOUS
<1>1. PICK t \in 0 .. y - 1 : (\A z \in t .. y - 1 : IsRun(d, z, x, e)) /\ ~IsRun(d, t - 1, x, e)
  BY StackTop
<1> DEFINE r == [x0 |-> x, y0 |-> t, x1 |-> e, y1 |-> y]
<1>2. y \in 0 .. TilesY /\ t \in 0 .. TilesY /\ x \in 0 .. TilesX /\ e \in 0 .. TilesX
  BY RunsAreInBands, GridAssumption
<1>3. r \in Rects /\ r.x0 = x /\ r.x1 = e /\ r.y0 = t /\ r.y1 = y
  BY <1>2 DEF Rects
<1> HIDE DEF r
<1>4. r \in Stacks(d, x, y)
  BY <1>1, <1>3, StacksOfTheRun
<1> QED
  BY <1>3, <1>4

\* Then passing the run adds a rectangle of its own (rects.push).
LEMMA StacksPush ==
    ASSUME NEW d \in SUBSET Strips, NEW x \in Int, NEW y \in Int, NEW e \in Int, IsRun(d, y, x, e),
           ~\E r \in Stacks(d, x, y) : r.x0 = x /\ r.x1 = e /\ r.y1 = y
    PROVE  Stacks(d, e, y) =
             Stacks(d, x, y) \cup {[x0 |-> x, y0 |-> y, x1 |-> e, y1 |-> y + 1]}
<1> DEFINE g == [x0 |-> x, y0 |-> y, x1 |-> e, y1 |-> y + 1]
<1>1. y \in 0 .. TilesY /\ y + 1 \in 0 .. TilesY /\ x \in 0 .. TilesX /\ e \in 0 .. TilesX
  BY RunsAreInBands, GridAssumption
<1>2. g \in Rects /\ g.x0 = x /\ g.x1 = e /\ g.y0 = y /\ g.y1 = y + 1
  BY <1>1 DEF Rects
<1> HIDE DEF g
<1>3. ~IsRun(d, y - 1, x, e)
  BY NoPriorNoRun
<1>4. ASSUME NEW r \in Rects
      PROVE  r \in Stacks(d, e, y) <=> r \in Stacks(d, x, y) \/ r = g
  <2>1. r.y0 \in Int /\ r.y1 \in Int
    BY RectSides
  <2>2. CASE r.x0 # x \/ r.x1 # e \/ r.y1 < y
    BY <2>1, <2>2, <1>2, OtherStacksStay
  <2>3. CASE r.x0 = x /\ r.x1 = e /\ ~(r.y1 < y)
    <3>1. r \notin Stacks(d, x, y)
      BY <2>3, StacksOfTheRun
    <3>2. r = g => r \in Stacks(d, e, y)
      BY <1>2, <1>3, <2>3, StacksOfTheRun
    <3>3. r \in Stacks(d, e, y) => r = g
      <4> SUFFICES ASSUME r \in Stacks(d, e, y) PROVE r = g
        OBVIOUS
      <4>1. r.y1 = y + 1 /\ r.y0 <= y /\ (\A z \in r.y0 .. y - 1 : IsRun(d, z, x, e))
        BY <2>3, StacksOfTheRun
      <4>2. r.y0 = y
        BY <2>1, <4>1, <1>3
      <4> QED
        BY <2>3, <4>1, <4>2, <1>2, SameSides
    <3> QED
      BY <3>1, <3>2, <3>3
  <2> QED
    BY <2>2, <2>3
<1>5. Stacks(d, e, y) \subseteq Rects /\ Stacks(d, x, y) \subseteq Rects
  BY DEF Stacks
<1>6. Stacks(d, e, y) = Stacks(d, x, y) \cup {g}
  BY <1>2, <1>4, <1>5
<1> QED
  BY <1>6 DEF g

\* There are finitely many rectangles.
LEMMA RectsAreFinite == IsFiniteSet(Rects)
<1> DEFINE X == 0 .. TilesX  Y == 0 .. TilesY  P == (X \X Y) \X (X \X Y)
           f == [p \in P |-> [x0 |-> p[1][1], y0 |-> p[1][2], x1 |-> p[2][1], y1 |-> p[2][2]]]
<1>1. IsFiniteSet(X) /\ IsFiniteSet(Y)
  BY FS_Interval, GridAssumption
<1>2. IsFiniteSet(P)
  <2>1. IsFiniteSet(X \X Y)
    BY <1>1, FS_Product
  <2> QED
    BY <2>1, FS_Product
<1>3. f \in [P -> Rects]
  BY DEF Rects
<1>4. ASSUME NEW r \in Rects PROVE \E p \in P : f[p] = r
  <2>1. r.x0 \in X /\ r.x1 \in X /\ r.y0 \in Y /\ r.y1 \in Y
    BY DEF Rects
  <2> DEFINE p == <<<<r.x0, r.y0>>, <<r.x1, r.y1>>>>
  <2>2. p \in P
    BY <2>1
  <2>3. f[p] = [x0 |-> r.x0, y0 |-> r.y0, x1 |-> r.x1, y1 |-> r.y1]
    BY <2>2
  <2>4. f[p] = r
    BY <2>3 DEF Rects
  <2> QED
    BY <2>2, <2>4
<1> HIDE DEF P, f
<1>5. f \in Surjection(P, Rects)
  BY <1>3, <1>4 DEF Surjection
<1> QED
  BY <1>2, <1>5, FS_Surjection

\* Every stack so far is the top of a maximal rectangle.
LEMMA StackExtends ==
    ASSUME NEW d \in SUBSET Strips, NEW r \in Rects, r.y0 < r.y1,
           \A z \in r.y0 .. r.y1 - 1 : IsRun(d, z, r.x0, r.x1), ~IsRun(d, r.y0 - 1, r.x0, r.x1)
    PROVE  \E m \in MaximalRects(d) : m.x0 = r.x0 /\ m.x1 = r.x1 /\ m.y0 = r.y0
<1>1. r.x0 \in Int /\ r.x1 \in Int /\ r.y0 \in Int /\ r.y1 \in Int
  BY RectSides
<1>2. IsRun(d, r.y0, r.x0, r.x1)
  BY <1>1
<1>3. PICK t \in r.y0 + 1 .. TilesY :
        (\A z \in r.y0 .. t - 1 : IsRun(d, z, r.x0, r.x1)) /\ ~IsRun(d, t, r.x0, r.x1)
  BY <1>1, <1>2, StackBottom
<1> DEFINE m == [r EXCEPT !.y1 = t]
<1>4. t \in 0 .. TilesY /\ t > r.y0
  BY <1>1, <1>3, RectSides, GridAssumption
<1>5. m \in Rects /\ m.x0 = r.x0 /\ m.x1 = r.x1 /\ m.y0 = r.y0 /\ m.y1 = t
  BY <1>4 DEF Rects
<1> HIDE DEF m
<1>6. m \in MaximalRects(d)
  BY <1>3, <1>4, <1>5 DEF MaximalRects
<1> QED
  BY <1>5, <1>6

\* Two stacks with the same sides and top are one.
LEMMA OneBottom ==
    ASSUME NEW d, NEW x, NEW y, NEW r \in Stacks(d, x, y), NEW s \in Stacks(d, x, y),
           r.x0 = s.x0, r.x1 = s.x1, r.y0 = s.y0
    PROVE  r = s
<1>1. r \in Rects /\ s \in Rects
  BY DEF Stacks
<1>2. r.y0 \in Int /\ r.y1 \in Int /\ s.y1 \in Int
  BY <1>1, RectSides
<1>3. /\ r.y0 < r.y1 /\ ~Passed(d, x, y, r.y1, r.x0, r.x1)
      /\ \A z \in r.y0 .. r.y1 - 1 : Passed(d, x, y, z, r.x0, r.x1)
  BY DEF Stacks, IsStack
<1>4. /\ r.y0 < s.y1 /\ ~Passed(d, x, y, s.y1, r.x0, r.x1)
      /\ \A z \in r.y0 .. s.y1 - 1 : Passed(d, x, y, z, r.x0, r.x1)
  BY DEF Stacks, IsStack
<1>5. ~(r.y1 < s.y1)
  <2> SUFFICES ASSUME r.y1 < s.y1 PROVE FALSE
    OBVIOUS
  <2>1. r.y1 \in r.y0 .. s.y1 - 1
    BY <1>2, <1>3
  <2> QED
    BY <2>1, <1>3, <1>4
<1>6. ~(s.y1 < r.y1)
  <2> SUFFICES ASSUME s.y1 < r.y1 PROVE FALSE
    OBVIOUS
  <2>1. s.y1 \in r.y0 .. r.y1 - 1
    BY <1>2, <1>4
  <2> QED
    BY <2>1, <1>3, <1>4
<1> QED
  BY <1>1, <1>2, <1>5, <1>6, SameSides

\* While a run at the position has no rectangle to grow, the maximal
\* rectangles are more than the stacks.
LEMMA StacksAreFewer ==
    ASSUME NEW d \in SUBSET Strips, NEW x \in Int, NEW y \in Int, NEW e \in Int, IsRun(d, y, x, e),
           ~\E r \in Stacks(d, x, y) : r.x0 = x /\ r.x1 = e /\ r.y1 = y
    PROVE  Cardinality(MaximalRects(d)) > Cardinality(Stacks(d, x, y))
<1> DEFINE S == Stacks(d, x, y)
           M == MaximalRects(d)
           g == [x0 |-> x, y0 |-> y, x1 |-> e, y1 |-> y + 1]
           Tops(r, m) == m.x0 = r.x0 /\ m.x1 = r.x1 /\ m.y0 = r.y0
           f == [r \in S \cup {g} |-> CHOOSE m \in M : Tops(r, m)]
<1>1. y \in 0 .. TilesY /\ y + 1 \in 0 .. TilesY /\ x \in 0 .. TilesX /\ e \in 0 .. TilesX /\ x < e
  BY RunsAreInBands, GridAssumption
<1>2. g \in Rects /\ g.x0 = x /\ g.x1 = e /\ g.y0 = y /\ g.y1 = y + 1
  BY <1>1 DEF Rects
<1>3. ~IsRun(d, y - 1, x, e)
  BY NoPriorNoRun
<1> HIDE DEF g
<1>4. S \subseteq Rects /\ M \subseteq Rects
  BY DEF Stacks, MaximalRects
<1>5. IsFiniteSet(S) /\ IsFiniteSet(M)
  BY <1>4, RectsAreFinite, FS_Subset
<1>6. ASSUME NEW r \in S \cup {g} PROVE \E m \in M : Tops(r, m)
  <2>1. r \in Rects /\ r.y0 < r.y1 /\ ~IsRun(d, r.y0 - 1, r.x0, r.x1)
    BY <1>1, <1>2, <1>3 DEF Stacks, IsStack
  <2>2. \A z \in r.y0 .. r.y1 - 1 : IsRun(d, z, r.x0, r.x1)
    <3>1. CASE r \in S
      BY <3>1 DEF Stacks, IsStack, Passed
    <3>2. CASE r = g
      BY <3>2, <1>1, <1>2
    <3> QED
      BY <3>1, <3>2
  <2> QED
    BY <2>1, <2>2, StackExtends
<1>7. ASSUME NEW r \in S, Tops(r, g) PROVE FALSE
  <2>1. r \in Rects /\ r.y0 = y /\ r.x0 = x /\ r.x1 = e
    BY <1>2, <1>4, <1>7
  <2>2. r.y1 \in Int /\ y < r.y1
    BY <2>1, RectSides DEF Stacks, IsStack
  <2>3. Passed(d, x, y, y, x, e)
    BY <2>1, <2>2, <1>1 DEF Stacks, IsStack
  <2> QED
    BY <2>3, <1>1 DEF Passed
<1>8. ASSUME NEW r \in S \cup {g}, NEW s \in S \cup {g}, NEW m \in M, Tops(r, m), Tops(s, m) PROVE r = s
  <2>1. Tops(r, s) /\ Tops(s, r)
    BY <1>8
  <2>2. CASE r \in S /\ s \in S
    BY <2>1, <2>2, OneBottom
  <2>3. CASE r = g /\ s = g
    BY <2>3
  <2> QED
    BY <1>7, <2>1, <2>2, <2>3
<1> HIDE DEF S, M, Tops
<1>9. \A r \in S \cup {g} : f[r] \in M /\ Tops(r, f[r])
  BY <1>6
<1>10. f \in [S \cup {g} -> M]
  BY <1>9
<1>11. \A r, s \in S \cup {g} : f[r] = f[s] => r = s
  BY <1>8, <1>9
<1> HIDE DEF f
<1>12. f \in Injection(S \cup {g}, M)
  BY <1>10, <1>11 DEF Injection, IsInjective
<1>13. Cardinality(S \cup {g}) <= Cardinality(M)
  BY <1>5, <1>12, FS_Injection
<1>14. g \notin S
  BY <1>7 DEF Tops
<1>15. Cardinality(S \cup {g}) = Cardinality(S) + 1
  BY <1>5, <1>14, FS_AddElement
<1>16. Cardinality(S) \in Nat /\ Cardinality(M) \in Nat
  BY <1>5, FS_CardinalityType
<1> QED
  BY <1>13, <1>15, <1>16 DEF S, M

\* Two strips are of one macro-tile, in one direction, when the second is
\* within a macro-tile of where that of the first begins.
LEMMA SameMacro ==
    ASSUME NEW n \in Nat \ {0}, NEW a \in Int, NEW b \in Int
    PROVE  a \div n = b \div n <=> (a \div n) * n <= b /\ b < (a \div n) * n + n
<1> DEFINE u == a \div n  v == b \div n  s == b % n
<1>1. u \in Int /\ v \in Int /\ s \in Int /\ s >= 0 /\ s < n /\ b = n * v + s
  BY RemainderDivision, RemainderRange
<1> HIDE DEF u, v, s
<1>2. u = v => u * n <= b /\ b < u * n + n
  BY <1>1
<1>3. ASSUME u * n <= b, b < u * n + n PROVE u = v
  <2>1. b - n * u \in 0 .. n - 1 /\ s \in 0 .. n - 1
    BY <1>1, <1>3
  <2>2. n * u + (b - n * u) = n * v + s
    BY <1>1
  <2> QED
    BY <1>1, <2>1, <2>2, RemainderUnique
<1> QED
  BY <1>2, <1>3 DEF u, v

\* A strip that owes is in a maximal rectangle.
LEMMA StripIsClipped ==
    ASSUME NEW d \in SUBSET Strips, NEW x, NEW y, <<x, y>> \in d
    PROVE  \E c \in MaximalRects(d) : c.x0 <= x /\ x < c.x1 /\ c.y0 <= y /\ y < c.y1
<1>1. x \in 0 .. TilesX - 1 /\ y \in 0 .. TilesY - 1
  BY DEF Strips
<1>2. PICK a \in 0 .. x, b \in x + 1 .. TilesX : IsRun(d, y, a, b)
  BY RunAround
<1>3. a \in Int /\ b \in Int /\ a \in 0 .. TilesX /\ b \in 0 .. TilesX /\ a <= x /\ x < b
  BY <1>1, <1>2, GridAssumption
<1>4. PICK t \in 0 .. y : (\A z \in t .. y : IsRun(d, z, a, b)) /\ ~IsRun(d, t - 1, a, b)
  BY <1>2, <1>3, StackTop
<1>5. PICK u \in y + 1 .. TilesY : (\A z \in y .. u - 1 : IsRun(d, z, a, b)) /\ ~IsRun(d, u, a, b)
  BY <1>2, <1>3, StackBottom
<1>6. t \in 0 .. TilesY /\ u \in 0 .. TilesY /\ t <= y /\ y < u /\ t < u
  BY <1>1, <1>4, <1>5, GridAssumption
<1>7. ASSUME NEW z \in t .. u - 1 PROVE IsRun(d, z, a, b)
  BY <1>1, <1>4, <1>5, <1>6
<1> DEFINE c == [x0 |-> a, y0 |-> t, x1 |-> b, y1 |-> u]
<1>8. c \in Rects /\ c.x0 = a /\ c.x1 = b /\ c.y0 = t /\ c.y1 = u
  BY <1>3, <1>6 DEF Rects
<1> HIDE DEF c
<1>9. c \in MaximalRects(d)
  BY <1>4, <1>5, <1>6, <1>7, <1>8 DEF MaximalRects
<1> QED
  BY <1>3, <1>6, <1>8, <1>9

\* Where a macro-tile and a stretch overlap they have a strip in common.
LEMMA CommonStrip ==
    ASSUME NEW n \in Nat \ {0}, NEW m \in Int, NEW a \in Int, NEW b \in Int,
           a < b, m < b, a < m + n
    PROVE  \E z \in a .. b - 1 : m <= z /\ z < m + n
<1>1. CASE m <= a
  <2>1. a \in a .. b - 1
    OBVIOUS
  <2> QED
    BY <1>1, <2>1
<1>2. CASE m > a
  <2>1. m \in a .. b - 1
    BY <1>2
  <2> QED
    BY <2>1
<1> QED
  BY <1>1, <1>2

\* The clips select the owing strips and what shares a macro-tile with them
\* (damage_strip_coords).
LEMMA ClipsCover ==
    ASSUME NEW d \in SUBSET Strips
    PROVE  DamageStripCoords(MaximalRects(d)) = MacroClosure(d)
<1>1. ASSUME NEW s \in Strips, NEW o \in d, MacroOf(o) = MacroOf(s)
      PROVE  s \in DamageStripCoords(MaximalRects(d))
  <2>1. o = <<o[1], o[2]>> /\ o[1] \in Int /\ o[2] \in Int /\ s[1] \in Int /\ s[2] \in Int
    BY DEF Strips
  <2>2. PICK c \in MaximalRects(d) : c.x0 <= o[1] /\ o[1] < c.x1 /\ c.y0 <= o[2] /\ o[2] < c.y1
    BY <2>1, StripIsClipped
  <2>3. c.x0 \in Int /\ c.x1 \in Int /\ c.y0 \in Int /\ c.y1 \in Int
    BY RectSides DEF MaximalRects
  <2> DEFINE mx == (s[1] \div MacroX) * MacroX  my == (s[2] \div MacroY) * MacroY
  <2>4. s[1] \div MacroX = o[1] \div MacroX /\ s[2] \div MacroY = o[2] \div MacroY
    BY <1>1 DEF MacroOf
  <2>10. MacroX \in Nat \ {0} /\ MacroY \in Nat \ {0}
    BY GridAssumption
  <2>5. mx <= o[1] /\ o[1] < mx + MacroX
    BY <2>1, <2>4, <2>10, SameMacro, Zenon
  <2>6. my <= o[2] /\ o[2] < my + MacroY
    BY <2>1, <2>4, <2>10, SameMacro, Zenon
  <2>9. mx \in Int /\ my \in Int
    BY <2>1, <2>10, RemainderDivision
  <2>7. MacroOf(s)[1] * MacroX = mx /\ MacroOf(s)[2] * MacroY = my
    BY DEF MacroOf
  <2> HIDE DEF mx, my
  <2>8. mx < c.x1 /\ c.x0 < mx + MacroX /\ my < c.y1 /\ c.y0 < my + MacroY
    BY <2>1, <2>2, <2>3, <2>5, <2>6, <2>9, GridAssumption
  <2> QED
    BY <2>7, <2>8 DEF DamageStripCoords
<1>2. ASSUME NEW s \in DamageStripCoords(MaximalRects(d))
      PROVE  s \in Strips /\ \E o \in d : MacroOf(o) = MacroOf(s)
  <2>1. s \in Strips
    BY DEF DamageStripCoords
  <2> DEFINE mx == (s[1] \div MacroX) * MacroX  my == (s[2] \div MacroY) * MacroY
  <2>2. MacroOf(s)[1] * MacroX = mx /\ MacroOf(s)[2] * MacroY = my
    BY DEF MacroOf
  <2>3. PICK c \in MaximalRects(d) : mx < c.x1 /\ c.x0 < mx + MacroX /\ my < c.y1 /\ c.y0 < my + MacroY
    BY <2>2 DEF DamageStripCoords
  <2>4. s[1] \in Int /\ s[2] \in Int
    BY <2>1 DEF Strips
  <2>5. mx \in Int /\ my \in Int
    BY <2>4, RemainderDivision, GridAssumption
  <2>6. c.x0 \in Int /\ c.x1 \in Int /\ c.y0 \in Int /\ c.y1 \in Int /\ c.y0 < c.y1
    BY RectSides DEF MaximalRects
  <2>7. \A z \in c.y0 .. c.y1 - 1 : c.x0 < c.x1 /\ \A k \in c.x0 .. c.x1 - 1 : <<k, z>> \in d
    BY DEF MaximalRects, IsRun
  <2>8. c.x0 < c.x1
    BY <2>6, <2>7
  <2> HIDE DEF mx, my
  <2>9. PICK k \in c.x0 .. c.x1 - 1 : mx <= k /\ k < mx + MacroX
    BY <2>3, <2>5, <2>6, <2>8, CommonStrip, GridAssumption
  <2>10. PICK z \in c.y0 .. c.y1 - 1 : my <= z /\ z < my + MacroY
    BY <2>3, <2>5, <2>6, CommonStrip, GridAssumption
  <2>11. <<k, z>> \in d /\ k \in Int /\ z \in Int
    BY <2>6, <2>7, <2>9, <2>10
  <2>12. s[1] \div MacroX = k \div MacroX
    BY <2>4, <2>9, <2>11, SameMacro, GridAssumption DEF mx
  <2>13. s[2] \div MacroY = z \div MacroY
    BY <2>4, <2>10, <2>11, SameMacro, GridAssumption DEF my
  <2>14. MacroOf(<<k, z>>) = MacroOf(s)
    BY <2>12, <2>13 DEF MacroOf
  <2> QED
    BY <2>1, <2>11, <2>14
<1>3. ASSUME NEW s \in Strips
      PROVE  s \in DamageStripCoords(MaximalRects(d)) <=> s \in MacroClosure(d)
  BY <1>1, <1>2 DEF MacroClosure
<1>4. DamageStripCoords(MaximalRects(d)) \subseteq Strips /\ MacroClosure(d) \subseteq Strips
  BY DEF DamageStripCoords, MacroClosure
<1> QED
  BY <1>3, <1>4

\* The run at the position is the one the scan reads to its end.
LEMMA RunAtThePosition ==
    ASSUME Position, <<tx, ty>> \in owed
    PROVE  /\ RunEnd \in tx + 1 .. TilesX /\ IsRun(owed, ty, tx, RunEnd)
           /\ tx \in Int /\ ty \in Int /\ RunEnd \in Int /\ ty < TilesY /\ tx < TilesX
<1>1. \E b \in tx + 1 .. TilesX : (\A z \in tx .. b - 1 : <<z, ty>> \in owed) /\ <<b, ty>> \notin owed
  BY RunFrom DEF Position
<1>2. /\ RunEnd \in tx + 1 .. TilesX /\ <<RunEnd, ty>> \notin owed
      /\ \A z \in tx .. RunEnd - 1 : <<z, ty>> \in owed
  BY <1>1 DEF RunEnd
<1>3. tx \in Int /\ ty \in Int /\ <<tx - 1, ty>> \notin owed
  BY DEF Position
<1>4. ty < TilesY /\ tx < TilesX
  BY <1>3, GridAssumption DEF Position, Strips
<1>5. RunEnd \in Int /\ tx < RunEnd
  BY <1>2, <1>3
<1> QED
  BY <1>2, <1>3, <1>4, <1>5 DEF IsRun

LEMMA StacksAreFinite ==
    ASSUME NEW d, NEW x, NEW y
    PROVE  IsFiniteSet(Stacks(d, x, y)) /\ Cardinality(Stacks(d, x, y)) \in Nat
<1>1. Stacks(d, x, y) \in SUBSET Rects
  BY DEF Stacks
<1>2. IsFiniteSet(Stacks(d, x, y))
  BY <1>1, RectsAreFinite, FS_Subset
<1> QED
  BY <1>2, FS_CardinalityType

LEMMA InitScan == ScanInit => ScanInv
<1> SUFFICES ASSUME ScanInit PROVE ScanInv
  OBVIOUS
<1>1. owed \in SUBSET Strips /\ tx = 0 /\ ty = 0 /\ rects = {} /\ result = "scanning"
  BY DEF ScanInit
<1>2. Position
  BY <1>1, GridAssumption DEF Position, Strips
<1>3. rects = Stacks(owed, tx, ty)
  BY <1>1, StacksAtFirst
<1>4. Cardinality(rects) <= MAX_RECTS
  BY <1>1, FS_EmptySet, GridAssumption
<1> QED
  BY <1>1, <1>2, <1>3, <1>4 DEF ScanInv, GaveUp

\* Moving to the next strip, to the end of a run or to the next band.
LEMMA NextPosition ==
    ASSUME ScanInv, ScanNext
    PROVE  Position'
<1>1. Position
  BY DEF ScanInv
<1>2. /\ owed \in SUBSET Strips /\ tx \in 0 .. TilesX /\ ty \in 0 .. TilesY
      /\ TilesX \in Nat /\ TilesY \in Nat
  BY <1>1, GridAssumption DEF Position
<1>3. CASE SkipStrip
  <2>1. owed' = owed /\ tx' = tx + 1 /\ ty' = ty /\ result' = result /\ tx < TilesX /\ ty < TilesY
    BY <1>3 DEF SkipStrip
  <2>2. <<tx' - 1, ty'>> \notin owed'
    BY <1>2, <1>3, <2>1 DEF SkipStrip
  <2> QED
    BY <1>1, <1>2, <2>1, <2>2 DEF Position
<1>4. ASSUME <<tx, ty>> \in owed, tx' = RunEnd, UNCHANGED <<owed, ty, result>> PROVE Position'
  <2>1. RunEnd \in tx + 1 .. TilesX /\ <<RunEnd, ty>> \notin owed /\ ty < TilesY
    BY <1>1, <1>4, RunAtThePosition DEF IsRun
  <2> QED
    BY <1>1, <1>2, <1>4, <2>1 DEF Position
<1>5. CASE GrowRect
  BY <1>4, <1>5 DEF GrowRect
<1>6. CASE PushRect
  <2>1. CASE Full
    BY <1>1, <1>2, <1>6, <2>1 DEF PushRect, Position
  <2>2. CASE ~Full
    BY <1>4, <1>6, <2>2 DEF PushRect
  <2> QED
    BY <2>1, <2>2
<1>7. CASE NextBand
  <2>1. owed' = owed /\ tx' = 0 /\ ty' = ty + 1 /\ result' = "scanning" /\ result = "scanning" /\ ty < TilesY
    BY <1>7 DEF NextBand
  <2>2. <<0 - 1, ty + 1>> \notin owed
    BY <1>2 DEF Strips
  <2> QED
    BY <1>1, <1>2, <2>1, <2>2 DEF Position
<1>8. CASE Finish
  BY <1>1, <1>8 DEF Finish, Position
<1> QED
  BY <1>3, <1>5, <1>6, <1>7, <1>8 DEF ScanNext

\* There is a rectangle to grow exactly if a stack ends at the run's band.
LEMMA PriorsAreStacks ==
    ASSUME ScanInv
    PROVE  Priors(RunEnd) = {r \in Stacks(owed, tx, ty) : r.x0 = tx /\ r.x1 = RunEnd /\ r.y1 = ty}
BY DEF ScanInv, Priors

\* The rectangles are the stacks so far, before and after each step, and
\* there is room for them.
LEMMA NextStacks ==
    ASSUME ScanInv, ScanNext
    PROVE  rects' = Stacks(owed', tx', ty') /\ Cardinality(rects') <= MAX_RECTS
<1>1. /\ Position /\ rects = Stacks(owed, tx, ty) /\ Cardinality(rects) <= MAX_RECTS
      /\ owed \in SUBSET Strips /\ tx \in Int /\ ty \in Int
  BY DEF ScanInv, Position
<1>2. MAX_RECTS \in Nat /\ IsFiniteSet(rects) /\ Cardinality(rects) \in Nat
  BY <1>1, StacksAreFinite, GridAssumption
<1>3. CASE SkipStrip
  <2>1. owed' = owed /\ tx' = tx + 1 /\ ty' = ty /\ rects' = rects /\ <<tx, ty>> \notin owed
    BY <1>3 DEF SkipStrip
  <2>2. Stacks(owed, tx + 1, ty) = Stacks(owed, tx, ty)
    BY <1>1, <2>1, StacksOverAGap
  <2> QED
    BY <1>1, <2>1, <2>2
<1>4. CASE GrowRect
  <2>1. <<tx, ty>> \in owed /\ tx' = RunEnd /\ owed' = owed /\ ty' = ty
    BY <1>4 DEF GrowRect
  <2>2. PICK p \in Priors(RunEnd) : rects' = (rects \ {p}) \cup {Grown(p)}
    BY <1>4 DEF GrowRect
  <2>3. RunEnd \in Int /\ IsRun(owed, ty, tx, RunEnd)
    BY <1>1, <2>1, RunAtThePosition
  <2>4. p \in Stacks(owed, tx, ty) /\ p.x0 = tx /\ p.x1 = RunEnd /\ p.y1 = ty /\ p \in rects
    BY <1>1, PriorsAreStacks
  <2>5. Stacks(owed, RunEnd, ty) = (Stacks(owed, tx, ty) \ {p}) \cup {[p EXCEPT !.y1 = ty + 1]}
    BY <1>1, <2>3, <2>4, StacksGrow
  <2>6. rects' = Stacks(owed', tx', ty')
    BY <1>1, <2>1, <2>2, <2>5 DEF Grown
  <2>7. IsFiniteSet(rects \ {p}) /\ Cardinality(rects \ {p}) = Cardinality(rects) - 1
    BY <1>2, <2>4, FS_RemoveElement
  <2>8. Cardinality(rects') <= Cardinality(rects)
    <3> DEFINE rest == rects \ {p}
    <3>1. Cardinality(rest \cup {Grown(p)}) =
            IF Grown(p) \in rest THEN Cardinality(rest) ELSE Cardinality(rest) + 1
      BY <2>7, FS_AddElement
    <3> QED
      BY <1>2, <2>2, <2>7, <3>1
  <2>9. Cardinality(rects') \in Nat
    BY <2>6, StacksAreFinite
  <2> QED
    BY <1>1, <1>2, <2>6, <2>8, <2>9
<1>5. CASE PushRect
  <2>1. CASE Full
    BY <1>1, <1>5, <2>1 DEF PushRect
  <2>2. CASE ~Full
    <3>1. /\ <<tx, ty>> \in owed /\ tx' = RunEnd /\ owed' = owed /\ ty' = ty /\ Priors(RunEnd) = {}
          /\ rects' = rects \cup {[x0 |-> tx, y0 |-> ty, x1 |-> RunEnd, y1 |-> ty + 1]}
      BY <1>5, <2>2 DEF PushRect
    <3>2. RunEnd \in Int /\ IsRun(owed, ty, tx, RunEnd)
      BY <1>1, <3>1, RunAtThePosition
    <3>3. ~\E r \in Stacks(owed, tx, ty) : r.x0 = tx /\ r.x1 = RunEnd /\ r.y1 = ty
      BY <3>1, PriorsAreStacks
    <3>4. Stacks(owed, RunEnd, ty) =
            Stacks(owed, tx, ty) \cup {[x0 |-> tx, y0 |-> ty, x1 |-> RunEnd, y1 |-> ty + 1]}
      BY <1>1, <3>2, <3>3, StacksPush
    <3>5. rects' = Stacks(owed', tx', ty')
      BY <1>1, <3>1, <3>4
    <3>6. Cardinality(rects') <= Cardinality(rects) + 1
      <4> DEFINE g == [x0 |-> tx, y0 |-> ty, x1 |-> RunEnd, y1 |-> ty + 1]
      <4> HIDE DEF g
      <4>1. Cardinality(rects \cup {g}) = IF g \in rects THEN Cardinality(rects) ELSE Cardinality(rects) + 1
        BY <1>2, FS_AddElement
      <4>2. Cardinality(rects \cup {g}) <= Cardinality(rects) + 1
        BY <1>2, <4>1
      <4> QED
        BY <3>1, <4>2 DEF g
    <3>7. Cardinality(rects') \in Nat
      BY <3>5, StacksAreFinite
    <3>8. Cardinality(rects) + 1 <= MAX_RECTS
      BY <1>1, <1>2, <2>2 DEF Full
    <3> QED
      BY <1>2, <3>5, <3>6, <3>7, <3>8
  <2> QED
    BY <2>1, <2>2
<1>6. CASE NextBand
  <2>1. owed' = owed /\ tx' = 0 /\ ty' = ty + 1 /\ rects' = rects /\ tx = TilesX
    BY <1>6 DEF NextBand
  <2>2. Stacks(owed, 0, ty + 1) = Stacks(owed, TilesX, ty)
    BY <1>1, StacksOverABand
  <2> QED
    BY <1>1, <2>1, <2>2
<1>7. CASE Finish
  BY <1>1, <1>7 DEF Finish
<1> QED
  BY <1>3, <1>4, <1>5, <1>6, <1>7 DEF ScanNext

\* The scan gives up at a run without a rectangle to grow, and then stops.
LEMMA NextGaveUp ==
    ASSUME ScanInv, ScanNext
    PROVE  GaveUp'
<1>1. result = "scanning"
  BY DEF ScanNext, SkipStrip, GrowRect, PushRect, NextBand, Finish
<1>2. result' = "none" => PushRect /\ Full /\ UNCHANGED <<owed, tx, ty, rects>>
  BY <1>1 DEF ScanNext, SkipStrip, GrowRect, PushRect, NextBand, Finish
<1> SUFFICES ASSUME result' = "none"
             PROVE  /\ ty' < TilesY /\ tx' < TilesX /\ <<tx', ty'>> \in owed'
                    /\ Priors(RunEnd)' = {} /\ Full'
  BY DEF GaveUp
<1>3. ty < TilesY /\ tx < TilesX /\ <<tx, ty>> \in owed /\ Priors(RunEnd) = {} /\ Full
  BY <1>2 DEF PushRect
<1>4. RunEnd' = RunEnd
  BY <1>2 DEF RunEnd
<1>5. Priors(RunEnd)' = Priors(RunEnd) /\ Full' = Full
  BY <1>2, <1>4 DEF Priors, Full
<1> QED
  BY <1>2, <1>3, <1>5

LEMMA ScanIsSound == ScanSpec => []ScanInv
<1>1. ScanInv /\ [ScanNext]_scanVars => ScanInv'
  <2> SUFFICES ASSUME ScanInv, [ScanNext]_scanVars PROVE ScanInv'
    OBVIOUS
  <2>1. CASE ScanNext
    BY <2>1, NextPosition, NextStacks, NextGaveUp DEF ScanInv
  <2>2. CASE UNCHANGED scanVars
    BY <2>2, ZenonT(40) DEF ScanInv, Position, GaveUp, Priors, RunEnd, Full, scanVars
  <2> QED
    BY <2>1, <2>2
<1> QED
  BY <1>1, InitScan, PTL DEF ScanSpec

\* The rectangles handed to the codec are the maximal stacks of owing runs,
\* their clips select every owing strip and nothing outside its macro-tiles,
\* and the scan gives up exactly when there are more than MAX_RECTS, for every
\* surface, macro-tile and limit (owed_rects, damage_strip_coords).
THEOREM ClipsAlwaysDescribeTheDebt == ScanSpec => []ClipsDescribeTheDebt
<1>1. ScanInv => ClipsDescribeTheDebt
  <2> SUFFICES ASSUME ScanInv PROVE ClipsDescribeTheDebt
    OBVIOUS
  <2>1. /\ Position /\ rects = Stacks(owed, tx, ty) /\ Cardinality(rects) <= MAX_RECTS /\ GaveUp
        /\ owed \in SUBSET Strips /\ MAX_RECTS \in Nat
    BY GridAssumption DEF ScanInv, Position
  <2>2. ASSUME result = "rects"
        PROVE  rects = MaximalRects(owed) /\ DamageStripCoords(rects) = MacroClosure(owed) /\ ~Scattered(owed)
    <3>1. tx = 0 /\ ty = TilesY
      BY <2>1, <2>2 DEF Position
    <3>2. rects = MaximalRects(owed)
      BY <2>1, <3>1, StacksAtLast
    <3>3. Cardinality(rects) \in Nat
      BY <2>1, StacksAreFinite
    <3>4. ~(Cardinality(rects) > MAX_RECTS)
      BY <2>1, <3>3
    <3> QED
      BY <2>1, <3>2, <3>4, ClipsCover DEF Scattered
  <2>3. ASSUME result = "none" PROVE Scattered(owed)
    <3>1. <<tx, ty>> \in owed /\ Priors(RunEnd) = {} /\ Cardinality(rects) = MAX_RECTS
      BY <2>1, <2>3 DEF GaveUp, Full
    <3>2. tx \in Int /\ ty \in Int /\ RunEnd \in Int /\ IsRun(owed, ty, tx, RunEnd)
      BY <2>1, <3>1, RunAtThePosition
    <3>3. ~\E r \in Stacks(owed, tx, ty) : r.x0 = tx /\ r.x1 = RunEnd /\ r.y1 = ty
      BY <3>1, PriorsAreStacks
    <3>4. Cardinality(MaximalRects(owed)) > Cardinality(Stacks(owed, tx, ty))
      BY <2>1, <3>2, <3>3, StacksAreFewer, ZenonT(40)
    <3> QED
      BY <2>1, <3>1, <3>4 DEF Scattered
  <2> QED
    BY <2>2, <2>3 DEF ClipsDescribeTheDebt
<1> QED
  BY <1>1, ScanIsSound, PTL
=============================================================================
