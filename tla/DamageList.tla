----------------------------- MODULE DamageList -----------------------------
(***************************************************************************)
(* The damage a Revdi card accumulates between two grabs, on real          *)
(* rectangles: painter::Damage and the rectangle half of GRABPIX           *)
(* (module/painter.rs, module/ioctl.rs).  RevdiCard abstracts this to a    *)
(* set of regions; here the list overflows into a bounding box, and a grab *)
(* clips it to a buffer that need not have the framebuffer's size.         *)
(***************************************************************************)
EXTENDS Integers, Sequences, FiniteSets

CONSTANTS
    MAX_DAMAGE_RECTS,
    FbWidth, FbHeight,
    Buffers,          \* the <<stride in pixels, height>> a client may register
    Capacities        \* the num_rects a client may pass

ASSUME DamageAssumption ==
    /\ MAX_DAMAGE_RECTS \in Nat \ {0}
    /\ FbWidth \in Nat /\ FbHeight \in Nat
    /\ Buffers \subseteq Nat \X Nat
    /\ Capacities \subseteq Nat \ {0}

VARIABLES
    damage,    \* Damage: the rectangles recorded since the last grab
    changed,   \* history: the pixels the compositor changed since then
    report,    \* the rectangles of the last grab, until the next flip
    into       \* history: the rectangle that grab's buffer has, until then

damageVars == <<damage, changed, report, into>>

Box(x1, y1, x2, y2) == [x1 |-> x1, y1 |-> y1, x2 |-> x2, y2 |-> y2]
Rects == {r \in [x1 : 0 .. FbWidth, y1 : 0 .. FbHeight, x2 : 0 .. FbWidth, y2 : 0 .. FbHeight] :
            r.x1 < r.x2 /\ r.y1 < r.y2}
Full == Box(0, 0, FbWidth, FbHeight)

Pixels(r) == (r.x1 .. r.x2 - 1) \X (r.y1 .. r.y2 - 1)
Covered(rs) == UNION {Pixels(r) : r \in rs}
Listed(d) == {d[i] : i \in 1 .. Len(d)}

Least(a, b) == IF a < b THEN a ELSE b
Clamp(v, lo, hi) == IF v < lo THEN lo ELSE IF v > hi THEN hi ELSE v

Lowest(s) == CHOOSE n \in s : \A k \in s : n <= k
Highest(s) == CHOOSE n \in s : \A k \in s : n >= k

\* The smallest rectangle around some.
Bound(rs) ==
    Box(Lowest({r.x1 : r \in rs}), Lowest({r.y1 : r \in rs}),
        Highest({r.x2 : r \in rs}), Highest({r.y2 : r \in rs}))

\* Damage::push: a full list and the new rectangle collapse into one.
DamagePush(d, r) ==
    IF Len(d) < MAX_DAMAGE_RECTS THEN Append(d, r) ELSE <<Bound(Listed(d) \cup {r})>>

\* One rectangle cut to the framebuffer and the client's buffer.
ClampRect(r, w, h) ==
    Box(Clamp(r.x1, 0, w), Clamp(r.y1, 0, h),
        Clamp(r.x2, Clamp(r.x1, 0, w), w), Clamp(r.y2, Clamp(r.y1, 0, h), h))

NotEmpty(r) == r.x1 < r.x2 /\ r.y1 < r.y2

\* Nothing recorded is the whole frame.
Recorded(d) == IF d = <<>> THEN <<Full>> ELSE d

\* The places of the recorded rectangles that leave something in the buffer.
Kept(d, w, h) == {i \in 1 .. Len(d) : NotEmpty(ClampRect(d[i], w, h))}

\* Mutant: a client with too little room gets the first rectangle.
FirstOfMany(d, w, h, cap) ==
    LET rects == {ClampRect(d[i], w, h) : i \in Kept(d, w, h)}
    IN  IF Cardinality(Kept(d, w, h)) > Least(cap, MAX_DAMAGE_RECTS)
        THEN {ClampRect(d[Lowest(Kept(d, w, h))], w, h)} ELSE rects

\* The rectangles a grab reports and copies: empty ones are dropped, and more
\* than the client has room for become their bounding box.
Reported(d, w, h, cap) ==
    LET rects == {ClampRect(d[i], w, h) : i \in Kept(d, w, h)}
    IN  IF Cardinality(Kept(d, w, h)) > Least(cap, MAX_DAMAGE_RECTS) THEN {Bound(rects)} ELSE rects

-----------------------------------------------------------------------------
Nowhere == Box(0, 0, -1, -1)

DamageInit == damage = <<>> /\ changed = {} /\ report = {} /\ into = Nowhere

\* A damage clip of a flip (plane atomic_update).
Flip(r) ==
    /\ damage' = DamagePush(damage, r)
    /\ changed' = changed \cup Pixels(r)
    /\ report' = {} /\ into' = Nowhere

\* GRABPIX into a buffer of stride w (in pixels) and height h.
Grab(w, h, cap) ==
    /\ report' = Reported(Recorded(damage), Least(FbWidth, w), Least(FbHeight, h), cap)
    /\ damage' = <<>>
    /\ changed' = {} /\ into' = Box(0, 0, w, h)

DamageNext ==
    \/ \E r \in Rects : Flip(r)
    \/ \E b \in Buffers, cap \in Capacities : Grab(b[1], b[2], cap)

DamageSpec == DamageInit /\ [][DamageNext]_damageVars

-----------------------------------------------------------------------------
\* Every pixel changed since the last grab is in the recorded damage, however
\* often the list overflowed, and the list never outgrows its array.
DamageCoversChanges ==
    changed \subseteq Covered(Listed(damage)) /\ Len(damage) <= MAX_DAMAGE_RECTS

\* What is owed is what was changed, the room is where buffer and framebuffer
\* overlap, what was told is the area of the grab's rectangles.
Promise == INSTANCE DamagePromise
    WITH Screen <- Pixels(Full), owed <- changed, held <- into # Nowhere,
         room <- Pixels(into) \cap Pixels(Full), told <- Covered(report)

\* The list keeps the promise: every changed pixel that the client's buffer
\* can hold is in the rectangles its next grab reports, these stay inside both
\* surfaces, and a grab with nothing recorded reports the whole frame.
KeepsThePromise == Promise!PromiseSpec
=============================================================================
